---- MODULE Spec2Model ----
(***************************************************************************)
(* Model of the dingo node's outbound peer manager (src/outbound.go) and   *)
(* of its ChainSync handlers (second file of src/state/eras/byron.go,      *)
(* package dingo).                                                         *)
(*                                                                         *)
(* The specifications share the variables:                                 *)
(*   Spec, SpecBackoff  the outbound workers: startOutboundConnections,    *)
(*               createOutboundConnection, reconnectOutboundConnection and *)
(*               the closing of connections;                               *)
(*   SpecReconnect  the same workers against peers that become reachable,  *)
(*               with fairness;                                            *)
(*   SpecTopology  startOutboundConnections over topology configurations;  *)
(*   SpecServer, SpecServerFair  the ChainSync-server handlers             *)
(*               chainsyncServerFindIntersect and                          *)
(*               chainsyncServerRequestNext with its background waiter,    *)
(*               run against a chain store that appends and rolls back;    *)
(*   SpecLocks   the chain writer, FindIntersect and the outbound workers  *)
(*               taking the chain store's lock and the chainsync-state     *)
(*               lock;                                                     *)
(*   SpecClient  the ChainSync-client start and callbacks;                 *)
(*   SpecTx      local transaction submission;                             *)
(*   SpecEras    the era functions.                                        *)
(***************************************************************************)
EXTENDS Integers, Sequences, FiniteSets, TLC

(***************************************************************************)
(* Bounds of the model.                                                    *)
(***************************************************************************)
\* Failed connection attempts of the running workers, in total, after which
\* a failing worker is no longer followed, and connections the node dials
\* successfully in one run: Spec follows few failures over several
\* connections, SpecBackoff many failures over few connections.
FewFails == 2
MaxConns == 3
MaxFails == 10
BackoffConns == 1
\* goroutines of the outbound manager alive at once, beyond one per startup worker
MaxLoops == 0
\* connections served by the ChainSync server, requests the server takes
\* off its connections in total, slots of the chain, and appends and rollbacks of the
\* chain in one run
NumSessions == 2
MaxReq == 3
MaxSlot == 3
MaxChainOps == 2
\* messages an upstream ChainSync session delivers to the client's callbacks
MaxMsgs == 2
\* entries the mempool holds, and messages a local client submits
MempoolCapacity == 2
MaxSubmits == 4
\* the bits of an int and of a uint
WordBits == 8
\* hosts in one section of a topology configuration
MaxAccessPoints == 2
\* failed attempts and outbound connections of the workers in the run of
\* the lock discipline
LockFails == 1
LockConns == 1
\* failed attempts of a peer before it is reachable
RetryFails == 3

(***************************************************************************)
(* Program constants, in seconds (src/outbound.go:36-40).                  *)
(***************************************************************************)
initialReconnectDelay == 1
maxReconnectDelay == 128
reconnectBackoffFactor == 2
\* src/state/eras/byron.go:183-185
chainsyncIntersectPointCount == 100

\* nil of *ouroboros.ConnectionId, and "no worker"
None == 0

(***************************************************************************)
(* Topology configuration read by startOutboundConnections.                *)
(***************************************************************************)
\* a configured host: its address and its port
Host(address, port) == [Address |-> address, Port |-> port]

BootstrapPeers == << Host("a", 3001) >>
LocalRoots == << [AccessPoints |-> << Host("b", 3001) >>, Advertise |-> TRUE] >>
PublicRoots == << >>

\* n.config.topologyConfig
TopologyConfig ==
    [BootstrapPeers |-> BootstrapPeers, LocalRoots |-> LocalRoots,
     PublicRoots |-> PublicRoots]

\* strconv.Itoa and net.JoinHostPort (for hosts without a colon)
Itoa(i) == ToString(i)
JoinHostPort(host, port) == host \o ":" \o port

\* lines 67-70, 90-93, 113-116: the address of a peer
PeerAddress(host) == JoinHostPort(host.Address, Itoa(host.Port))

\* type outboundPeer
outboundPeer(address, isSharable) ==
    [Address |-> address, ReconnectCount |-> 0, ReconnectDelay |-> 0,
     sharable |-> isSharable]

RECURSIVE RootPeers(_)
\* the access points of a sequence of root groups, each with its group's
\* Advertise flag, in configuration order
RootPeers(roots) ==
    IF roots = << >> THEN << >>
    ELSE [i \in 1..Len(Head(roots).AccessPoints) |->
              outboundPeer(PeerAddress(Head(roots).AccessPoints[i]),
                           Head(roots).Advertise)]
         \o RootPeers(Tail(roots))

\* lines 55-121: tmpPeers for a topology configuration, one entry per
\* configured host, in the order bootstrap, local roots, public roots
tmpPeersOf(topologyCfg) ==
    [i \in 1..Len(topologyCfg.BootstrapPeers) |->
        outboundPeer(PeerAddress(topologyCfg.BootstrapPeers[i]), FALSE)]
    \o RootPeers(topologyCfg.LocalRoots)
    \o RootPeers(topologyCfg.PublicRoots)

\* tmpPeers of startOutboundConnections for the node's configuration
tmpPeers == tmpPeersOf(TopologyConfig)

\* the locals of a goroutine that does not run
NoPeer == outboundPeer("", FALSE)

NumStartup == Len(tmpPeers)
Workers == 1..(NumStartup + MaxLoops)

VARIABLES
    pc,            \* worker -> where the goroutine stands
    peer,          \* worker -> its outboundPeer value (passed by value)
    oConn,         \* worker -> connection of the running createOutboundConnection
    chainsyncClientConnId, \* worker -> the slot as read at line 257
    delays,        \* worker -> the delays its loop has slept, in order
    fails,         \* worker -> createOutboundConnection calls that returned an error
    origin,        \* worker -> "startup": started by startOutboundConnections,
                   \* "closed": a loop started for a closed connection
    connManager,   \* connections registered in the connection manager
    outboundConns, \* n.outboundConns: connection id -> outboundPeer
    clientConnId,  \* chainsyncState.clientConnId, the primary chainsync-client slot
    csLock,        \* holder of the chainsyncState mutex
    syncStarted,   \* connections for which chainsyncClientStart returned nil
    txStarted,     \* connections for which txsubmissionClientStart returned nil
    nextConnId,    \* next connection id to hand out
    bound,         \* the bounds of this run: [fails, conns]
    failover       \* a connection that owned the slot has been closed and no
                   \* createOutboundConnection has returned nil since

VARIABLES
    chain,         \* the chain store: the blocks after origin, oldest first
    chainOps,      \* appends and rollbacks applied to the chain so far
    ledgerReaders, \* connections whose handler holds ledgerState's read lock
    agency,        \* connection -> who may send next: "client" or "server"
    hpc,           \* connection -> where its ChainSync handler stands
    served,        \* connection -> requests dispatched so far
    htip,          \* connection -> the handler's local tip
    hpoints,       \* connection -> the points of the FindIntersect in hand
    hpoint,        \* connection -> the handler's local intersectPoint
    clients,       \* chainsyncState.clients: connection id -> ChainSyncClientState
    iters,         \* connection -> the ChainIterator of its client state
    waiters,       \* the background goroutines of chainsyncServerRequestNext
    sent           \* connection -> the messages the server has sent on it

VARIABLES
    clientIn,      \* what chainsyncClientStart is called with and finds:
                   \* connId, the node's config, the errors of the ledger
                   \* and of the peer, the peer's current tip
    startRet,      \* what chainsyncClientStart returned: "pending", "nil", "err"
    syncCalls,     \* the calls of conn.ChainSync().Client.Sync, in order
    events,        \* the events published on the chainsync topic, in order
    received,      \* the messages whose callback returned nil, in order
    cbRet,         \* what the last ChainSync-client callback returned
    mempool,       \* the mempool's entries in insertion order
    now,           \* the clock read by time.Now()
    txRet,         \* what the last localtxsubmissionServerSubmitTx did
    eraIn,         \* the era function called and its arguments
    eraOut,        \* whether it has returned, and what
    topologyConfig, \* the topology configuration startOutboundConnections reads
    spawned,       \* whether it has run, and the peers of the workers it
                   \* has started, in order
    writer,        \* the chain writer: "idle", "waiting" for the chain
                   \* store's exclusive lock, or "writing"
    startReaders   \* workers that hold the chain store's read lock
                   \* inside RecentChainPoints

cliVars == << clientIn, startRet, syncCalls, events, received, cbRet >>

txVars == << mempool, now, txRet >>

eraVars == << eraIn, eraOut >>

topoVars == << topologyConfig, spawned >>

lockVars == << writer, startReaders >>

\* what neither the outbound workers nor the ChainSync server touch
otherVars == << cliVars, txVars, eraVars, topoVars, lockVars >>

srvVars == << chain, chainOps, ledgerReaders, agency, hpc,
              served, htip, hpoints, hpoint, clients, iters, waiters, sent >>

outVars == << pc, peer, oConn, chainsyncClientConnId, delays, fails, origin,
              connManager, outboundConns, clientConnId, csLock,
              syncStarted, txStarted, nextConnId, failover >>

\* what no outbound worker touches
notOutbound == << bound, srvVars, otherVars >>

vars == << outVars, notOutbound >>

(***************************************************************************)
(* The chain store, its iterators and the chain-sync state table.          *)
(***************************************************************************)
SrvConns == 1..NumSessions

\* the block hashes a slot can carry: the block of the chain and a fork's
Hashes == {1, 2}

Point(slot, hash) == [Slot |-> slot, Hash |-> hash]

\* the origin point, and nil of *ocommon.Point
Origin == Point(0, 0)
NilPoint == Point(-1, 0)

\* the chain every run starts from
InitChain == << Point(1, 1), Point(2, 1) >>

\* the point of the i-th block of chain ch, origin for i = 0
PointAt(ch, i) == IF i = 0 THEN Origin ELSE ch[i]

\* the points on chain ch
OnChain(ch) == {PointAt(ch, i) : i \in 0..Len(ch)}

\* the index of point p on chain ch
IndexOf(ch, p) == CHOOSE i \in 0..Len(ch) : PointAt(ch, i) = p

\* n.ledgerState.Tip()
Tip(ch) == [Point |-> PointAt(ch, Len(ch)), BlockNumber |-> Len(ch)]

NilTip == [Point |-> NilPoint, BlockNumber |-> 0]

\* the block type stored with the block at point p
BlockType(p) == IF p.Slot <= 1 THEN "byron" ELSE "alonzo"

RECURSIVE GetIntersectPoint(_, _)
\* n.ledgerState.GetIntersectPoint(points): the first offered point that is
\* on the chain, nil if there is none
GetIntersectPoint(ch, points) ==
    IF points = << >> THEN NilPoint
    ELSE IF Head(points) \in OnChain(ch) THEN Head(points)
    ELSE GetIntersectPoint(ch, Tail(points))

\* the point lists a client offers in FindIntersect
OfferedPoints == { << Point(2, 1) >>,
                   << Point(1, 1) >>,
                   << Point(3, 2), Point(2, 2) >>,
                   << Point(3, 1), Origin >> }

\* an iterator as chain.FromPoint(point) makes it: positioned on the point
NewIterator(ch, point) ==
    [pos |-> IndexOf(ch, point), needsRollback |-> FALSE,
     rollbackPoint |-> NilPoint, cancelled |-> FALSE]

NoIterator ==
    [pos |-> 0, needsRollback |-> FALSE, rollbackPoint |-> NilPoint,
     cancelled |-> TRUE]

\* what ChainIterator.Next finds: a pending rollback first, then the block
\* after the cursor, else the tip
IterOutcome(it, ch) ==
    IF it.cancelled THEN "cancelled"
    ELSE IF it.needsRollback THEN "rollback"
    ELSE IF it.pos < Len(ch) THEN "block"
    ELSE "tip"

\* the iterator after a Next that returned a result
IterAdvance(it) ==
    IF it.needsRollback
    THEN [it EXCEPT !.needsRollback = FALSE, !.rollbackPoint = NilPoint]
    ELSE [it EXCEPT !.pos = @ + 1]

\* the chain rolled back to its i-th block: the iterators beyond it are
\* marked and repositioned
IterRollback(it, ch, i) ==
    IF ~it.cancelled /\ it.pos > i
    THEN [it EXCEPT !.pos = i, !.needsRollback = TRUE,
                    !.rollbackPoint = PointAt(ch, i)]
    ELSE it

\* chainsyncState.AddClient(connId, point) cannot make an iterator from a
\* point that is not on the chain
AddClientFails(c, point) == c \notin DOMAIN clients /\ point \notin OnChain(chain)

\* the table after chainsyncState.AddClient(connId, point): the state of the
\* connection is created if it has none, and returned as it is otherwise
AddClient(cl, c, point) ==
    IF c \in DOMAIN cl THEN cl
    ELSE (c :> [Cursor |-> point, NeedsInitialRollback |-> TRUE]) @@ cl

\* the iterators after the same call
AddClientIter(c, point) ==
    IF c \in DOMAIN clients THEN iters
    ELSE [iters EXCEPT ![c] = NewIterator(chain, point)]

\* chainsyncState.RemoveClient(connId): the state is dropped and its
\* iterator cancelled
RemoveClient(c) ==
    /\ clients' = [x \in DOMAIN clients \ {c} |-> clients[x]]
    /\ iters' = IF c \in DOMAIN clients
                THEN [iters EXCEPT ![c].cancelled = TRUE]
                ELSE iters

(***************************************************************************)
(* reconnectOutboundConnection, lines 273-278: the top of the loop.        *)
(***************************************************************************)
NextReconnectDelay_NoCap(d) ==
    IF d = 0 THEN initialReconnectDelay ELSE d * reconnectBackoffFactor

NextReconnectDelay(d) ==
    IF d = 0 THEN initialReconnectDelay
    ELSE IF d < maxReconnectDelay THEN d * reconnectBackoffFactor
    ELSE d

\* the counter incremented only where the delay is still growing
LoopTop_CountInBranch(p) ==
    [p EXCEPT !.ReconnectDelay = NextReconnectDelay(p.ReconnectDelay),
              !.ReconnectCount = IF p.ReconnectDelay < maxReconnectDelay
                                 THEN p.ReconnectCount + 1 ELSE p.ReconnectCount]

LoopTop(p) ==
    [p EXCEPT !.ReconnectDelay = NextReconnectDelay(p.ReconnectDelay),
              !.ReconnectCount = p.ReconnectCount + 1]

InitWorkers ==
    /\ pc = [w \in Workers |-> IF w <= NumStartup THEN "attempt" ELSE "done"]
    /\ peer = [w \in Workers |->
                 IF w <= NumStartup THEN tmpPeers[w] ELSE NoPeer]
    /\ oConn = [w \in Workers |-> None]
    /\ chainsyncClientConnId = [w \in Workers |-> None]
    /\ delays = [w \in Workers |-> << >>]
    /\ fails = [w \in Workers |-> 0]
    /\ origin = [w \in Workers |-> IF w <= NumStartup THEN "startup" ELSE "none"]
    /\ connManager = {}
    /\ outboundConns = << >>
    /\ clientConnId = None
    /\ csLock = None
    /\ syncStarted = {}
    /\ txStarted = {}
    /\ nextConnId = 1
    /\ failover = FALSE

\* no chainsyncClientStart to run, no upstream session
NoClientIn ==
    [connId |-> None, intersectTip |-> FALSE, intersectPoints |-> << >>,
     ledgerErr |-> FALSE, tipErr |-> FALSE, tip |-> NilTip]

InitCliIdle ==
    /\ clientIn = NoClientIn
    /\ startRet = "none"
    /\ syncCalls = << >>
    /\ events = << >>
    /\ received = << >>
    /\ cbRet = "none"

\* no local client submits transactions
InitTxIdle ==
    /\ mempool = << >>
    /\ now = 0
    /\ txRet = [tx |-> [EraId |-> 0, Content |-> [kind |-> "none", bytes |-> ""]],
                ret |-> "none"]

\* no era function is called
InitEraIdle ==
    /\ eraIn = [fn |-> "none"]
    /\ eraOut = [done |-> FALSE]

\* startOutboundConnections has run for the node's configuration
InitTopoDone ==
    /\ topologyConfig = TopologyConfig
    /\ spawned = [started |-> TRUE, peers |-> tmpPeers]

\* no chain writer at work, no worker inside RecentChainPoints
InitLockIdle ==
    /\ writer = "idle"
    /\ startReaders = {}

\* the ChainSync server before any request
InitSrvIdle ==
    /\ chainOps = 0
    /\ ledgerReaders = {}
    /\ agency = [c \in SrvConns |-> "client"]
    /\ hpc = [c \in SrvConns |-> "none"]
    /\ served = [c \in SrvConns |-> 0]
    /\ htip = [c \in SrvConns |-> NilTip]
    /\ hpoints = [c \in SrvConns |-> << >>]
    /\ hpoint = [c \in SrvConns |-> NilPoint]
    /\ clients = << >>
    /\ iters = [c \in SrvConns |-> NoIterator]
    /\ waiters = {}
    /\ sent = [c \in SrvConns |-> << >>]

InitSrv == chain = InitChain /\ InitSrvIdle

Init ==
    /\ InitWorkers /\ InitSrv
    /\ InitCliIdle /\ InitTxIdle /\ InitEraIdle /\ InitTopoDone /\ InitLockIdle
    /\ bound = [fails |-> FewFails, conns |-> MaxConns]

InitBackoff ==
    /\ InitWorkers /\ InitSrv
    /\ InitCliIdle /\ InitTxIdle /\ InitEraIdle /\ InitTopoDone /\ InitLockIdle
    /\ bound = [fails |-> MaxFails, conns |-> BackoffConns]

(***************************************************************************)
(* Returns of createOutboundConnection to its caller.                      *)
(***************************************************************************)
RECURSIVE TotalFails(_)
\* failed attempts of the workers ws so far
TotalFails(ws) ==
    IF ws = {} THEN 0
    ELSE LET w == CHOOSE x \in ws : TRUE IN fails[w] + TotalFails(ws \ {w})

\* lines 289-299 with a loop that gives up: the error return ends the
\* worker instead of continuing
ReturnErr_GivesUp(w) ==
    /\ fails' = [fails EXCEPT ![w] = @ + 1]
    /\ oConn' = [oConn EXCEPT ![w] = None]
    /\ chainsyncClientConnId' = [chainsyncClientConnId EXCEPT ![w] = None]
    /\ IF peer[w].ReconnectCount < 1
       THEN /\ peer' = [peer EXCEPT ![w] = LoopTop(peer[w])]
            /\ delays' = [delays EXCEPT
                            ![w] = Append(@, LoopTop(peer[w]).ReconnectDelay)]
            /\ pc' = [pc EXCEPT ![w] = "sleep"]
       ELSE /\ pc' = [pc EXCEPT ![w] = "capped"]
            /\ UNCHANGED << peer, delays >>

\* createOutboundConnection returned an error: startOutboundConnections
\* (lines 125-135) starts reconnectOutboundConnection(peer), the loop itself
\* (lines 289-299) continues; either way the loop top runs (lines 273-288)
\* and the worker sleeps peer.ReconnectDelay.
ReturnErr(w) ==
    /\ fails' = [fails EXCEPT ![w] = @ + 1]
    /\ oConn' = [oConn EXCEPT ![w] = None]
    /\ chainsyncClientConnId' = [chainsyncClientConnId EXCEPT ![w] = None]
    /\ IF TotalFails(Workers) < bound.fails
       THEN /\ peer' = [peer EXCEPT ![w] = LoopTop(peer[w])]
            /\ delays' = [delays EXCEPT
                            ![w] = Append(@, LoopTop(peer[w]).ReconnectDelay)]
            /\ pc' = [pc EXCEPT ![w] = "sleep"]
       ELSE /\ pc' = [pc EXCEPT ![w] = "capped"]
            /\ UNCHANGED << peer, delays >>

\* createOutboundConnection returned nil: the startup goroutine ends, the
\* loop resets its counter and returns (lines 300-301).  The goroutine is
\* gone and its locals with it.
ReturnNil(w) ==
    /\ pc' = [pc EXCEPT ![w] = "done"]
    /\ peer' = [peer EXCEPT ![w] = NoPeer]
    /\ oConn' = [oConn EXCEPT ![w] = None]
    /\ chainsyncClientConnId' = [chainsyncClientConnId EXCEPT ![w] = None]
    /\ delays' = [delays EXCEPT ![w] = << >>]
    /\ fails' = [fails EXCEPT ![w] = 0]
    /\ origin' = [origin EXCEPT ![w] = "none"]
    /\ failover' = FALSE

(***************************************************************************)
(* createOutboundConnection, lines 141-269.                                *)
(***************************************************************************)
\* lines 173-176 and 228-233: the dial or the handshake fails
DialFail(w) ==
    /\ UNCHANGED notOutbound
    /\ pc[w] = "attempt"
    /\ ReturnErr(w)
    /\ UNCHANGED << origin, connManager, outboundConns, clientConnId,
                    csLock, syncStarted, txStarted, nextConnId, failover >>

\* the record createOutboundConnection stores at line 251: its own copy of
\* peer, reset at lines 245-246
StoredPeer_NoReset(p) == p

StoredPeer(p) == [p EXCEPT !.ReconnectCount = 0, !.ReconnectDelay = 0]

\* lines 173-252: dial and handshake succeed, the connection is registered
\* in the connection manager and in the outbound tracking table
Connect(w) ==
    /\ UNCHANGED notOutbound
    /\ pc[w] = "attempt"
    /\ nextConnId <= bound.conns
    /\ oConn' = [oConn EXCEPT ![w] = nextConnId]
    /\ nextConnId' = nextConnId + 1
    /\ connManager' = connManager \cup {nextConnId}
    /\ outboundConns' = (nextConnId :> StoredPeer(peer[w])) @@ outboundConns
    /\ pc' = [pc EXCEPT ![w] = "lock"]
    /\ UNCHANGED << peer, chainsyncClientConnId, delays, fails, origin,
                    clientConnId, csLock, syncStarted, txStarted, failover >>

\* lines 255-258 without the mutex: the worker enters at once
Lock_NoMutex(w) ==
    /\ UNCHANGED notOutbound
    /\ pc[w] = "lock"
    /\ csLock' = w
    /\ chainsyncClientConnId' = [chainsyncClientConnId EXCEPT ![w] = clientConnId]
    /\ pc' = [pc EXCEPT ![w] = IF clientConnId = None THEN "start" ELSE "txsub"]
    /\ UNCHANGED << peer, oConn, delays, fails, origin, connManager,
                    outboundConns, clientConnId, syncStarted, txStarted,
                    nextConnId, failover >>

\* lines 255-258: n.chainsyncState.Lock(), read the slot, branch on nil
Lock(w) ==
    /\ UNCHANGED notOutbound
    /\ pc[w] = "lock"
    /\ csLock = None
    /\ csLock' = w
    /\ chainsyncClientConnId' = [chainsyncClientConnId EXCEPT ![w] = clientConnId]
    /\ pc' = [pc EXCEPT ![w] = IF clientConnId = None THEN "start" ELSE "txsub"]
    /\ UNCHANGED << peer, oConn, delays, fails, origin, connManager,
                    outboundConns, clientConnId, syncStarted, txStarted,
                    nextConnId, failover >>

\* line 256: defer n.chainsyncState.Unlock()
Unlock(w) == csLock' = IF csLock = w THEN None ELSE csLock

\* lines 259-262: chainsyncClientStart found the connection
\* (byron.go:206-209) and started Sync; the worker takes the slot
ChainsyncClientStartOk(w) ==
    /\ UNCHANGED notOutbound
    /\ pc[w] = "start"
    /\ oConn[w] \in connManager
    /\ syncStarted' = syncStarted \cup {oConn[w]}
    /\ clientConnId' = oConn[w]
    /\ pc' = [pc EXCEPT ![w] = "txsub"]
    /\ UNCHANGED << peer, oConn, chainsyncClientConnId, delays, fails, origin,
                    connManager, outboundConns, csLock, txStarted, nextConnId,
                    failover >>

\* lines 259-262 with the slot set before chainsyncClientStart is called
ChainsyncClientStartFail_SlotSet(w) ==
    /\ UNCHANGED notOutbound
    /\ pc[w] = "start"
    /\ ReturnErr(w)
    /\ Unlock(w)
    /\ clientConnId' = oConn[w]
    /\ UNCHANGED << origin, connManager, outboundConns,
                    syncStarted, txStarted, nextConnId, failover >>

\* lines 259-261: chainsyncClientStart returns an error (unknown connection,
\* RecentChainPoints, GetCurrentTip or Sync failed)
ChainsyncClientStartFail(w) ==
    /\ UNCHANGED notOutbound
    /\ pc[w] = "start"
    /\ ReturnErr(w)
    /\ Unlock(w)
    /\ UNCHANGED << origin, connManager, outboundConns, clientConnId,
                    syncStarted, txStarted, nextConnId, failover >>

\* lines 265-268 returning nil
TxsubmissionClientStartOk(w) ==
    /\ UNCHANGED notOutbound
    /\ pc[w] = "txsub"
    /\ txStarted' = txStarted \cup {oConn[w]}
    /\ ReturnNil(w)
    /\ Unlock(w)
    /\ UNCHANGED << connManager, outboundConns, clientConnId, syncStarted,
                    nextConnId >>

\* lines 265-267: txsubmissionClientStart returns an error
TxsubmissionClientStartFail(w) ==
    /\ UNCHANGED notOutbound
    /\ pc[w] = "txsub"
    /\ ReturnErr(w)
    /\ Unlock(w)
    /\ UNCHANGED << origin, connManager, outboundConns, clientConnId,
                    syncStarted, txStarted, nextConnId, failover >>

\* line 288: time.Sleep(peer.ReconnectDelay) returns
Wake(w) ==
    /\ UNCHANGED notOutbound
    /\ pc[w] = "sleep"
    /\ pc' = [pc EXCEPT ![w] = "attempt"]
    /\ UNCHANGED << peer, oConn, chainsyncClientConnId, delays, fails, origin,
                    connManager, outboundConns, clientConnId, csLock,
                    syncStarted, txStarted, nextConnId, failover >>

(***************************************************************************)
(* A registered connection closes.  The closure handler releases the       *)
(* connection's entries (the slot under the chainsync-state lock, the      *)
(* outbound tracking entry), its mini-protocol tasks end, and the outbound *)
(* manager starts a reconnect loop from the tracked record.                *)
(***************************************************************************)
FreeWorker == CHOOSE w \in Workers : pc[w] = "done" /\
                  \A v \in Workers : pc[v] = "done" => w <= v

Close(c) ==
    /\ UNCHANGED << bound, otherVars >>
    /\ RemoveClient(c)
    /\ UNCHANGED << chain, chainOps, ledgerReaders, agency,
                    hpc, served, htip, hpoints, hpoint, waiters, sent >>
    /\ c \in connManager
    /\ csLock = None
    /\ connManager' = connManager \ {c}
    /\ syncStarted' = syncStarted \ {c}
    /\ txStarted' = txStarted \ {c}
    /\ clientConnId' = IF clientConnId = c THEN None ELSE clientConnId
    /\ failover' = (failover \/ clientConnId = c)
    /\ IF c \in DOMAIN outboundConns
       THEN /\ \E w \in Workers : pc[w] = "done"
            /\ outboundConns' = [x \in DOMAIN outboundConns \ {c} |->
                                    outboundConns[x]]
            /\ peer' = [peer EXCEPT ![FreeWorker] = LoopTop(outboundConns[c])]
            /\ delays' = [delays EXCEPT ![FreeWorker] =
                            << LoopTop(outboundConns[c]).ReconnectDelay >>]
            /\ pc' = [pc EXCEPT ![FreeWorker] = "sleep"]
            /\ origin' = [origin EXCEPT ![FreeWorker] = "closed"]
       ELSE UNCHANGED << outboundConns, peer, delays, pc, origin >>
    /\ UNCHANGED << oConn, chainsyncClientConnId, fails, csLock, nextConnId >>

Next ==
    \/ \E w \in Workers :
         \/ DialFail(w)
         \/ Connect(w)
         \/ Lock(w)
         \/ ChainsyncClientStartOk(w)
         \/ ChainsyncClientStartFail(w)
         \/ TxsubmissionClientStartOk(w)
         \/ TxsubmissionClientStartFail(w)
         \/ Wake(w)
    \/ \E c \in connManager : Close(c)

Spec == Init /\ [][Next]_vars

SpecBackoff == InitBackoff /\ [][Next]_vars

(***************************************************************************)
(* The ChainSync server.  A client sends FindIntersect and RequestNext on  *)
(* its connection; the protocol hands the server one request at a time,    *)
(* while the client has the agency and the previous handler has returned.  *)
(***************************************************************************)
\* a message of the server: the reply to the req-th request of its
\* connection, sent by the FindIntersect handler ("fi"), as the initial
\* rollback ("initial"), from the iterator by the handler ("iter") or by the
\* background goroutine ("waiter")
Msg(kind, point, tip, via, req) ==
    [kind |-> kind, point |-> point, tip |-> tip,
     blockType |-> IF kind = "RollForward" THEN BlockType(point) ELSE "",
     via |-> via, req |-> req]

\* the message is written to connection c; writing to a closed connection
\* fails
CanSend(c) == c \in connManager

Send(c, m) == sent' = [sent EXCEPT ![c] = Append(@, m)]

\* the replies after which the client has the agency again
FinalKinds == {"IntersectFound", "IntersectNotFound", "RollForward", "RollBackward"}

\* the handler of connection c returns, its locals are gone
Return(c, to) ==
    /\ hpc' = [hpc EXCEPT ![c] = to]
    /\ htip' = [htip EXCEPT ![c] = NilTip]
    /\ hpoints' = [hpoints EXCEPT ![c] = << >>]
    /\ hpoint' = [hpoint EXCEPT ![c] = NilPoint]

RECURSIVE TotalServed(_)
\* requests taken off the connections cs so far
TotalServed(cs) ==
    IF cs = {} THEN 0
    ELSE LET c == CHOOSE x \in cs : TRUE IN served[c] + TotalServed(cs \ {c})

\* the protocol takes the client's next request, of the given kind, off
\* the connection and calls its handler
Dispatch(c, kind) ==
    /\ UNCHANGED << outVars, bound, otherVars >>
    /\ c \in connManager
    /\ agency[c] = "client"
    /\ hpc[c] = "none"
    /\ TotalServed(SrvConns) < MaxReq
    /\ served' = [served EXCEPT ![c] = @ + 1]
    /\ agency' = [agency EXCEPT ![c] = "server"]
    /\ hpc' = [hpc EXCEPT ![c] = IF kind = "FindIntersect" THEN "fi" ELSE "rn"]
    /\ UNCHANGED << chain, chainOps, ledgerReaders, htip, hpoints,
                    hpoint, clients, iters, waiters, sent >>

(***************************************************************************)
(* chainsyncServerFindIntersect, byron.go lines 240-274.                   *)
(***************************************************************************)
\* lines 244-252: n.ledgerState.RLock(), GetIntersectPoint(points)
FiRLock(c, points) ==
    /\ UNCHANGED << outVars, bound, otherVars >>
    /\ hpc[c] = "fi"
    /\ writer = "idle"
    /\ ledgerReaders' = ledgerReaders \cup {c}
    /\ hpoints' = [hpoints EXCEPT ![c] = points]
    /\ hpoint' = [hpoint EXCEPT ![c] = GetIntersectPoint(chain, points)]
    /\ hpc' = [hpc EXCEPT ![c] = "fi_tip"]
    /\ UNCHANGED << chain, chainOps, agency, served, htip,
                    clients, iters, waiters, sent >>

\* lines 254-273: Tip(), then ErrIntersectNotFound with the tip, or
\* AddClient and the point with the tip; the deferred RUnlock; the protocol
\* sends IntersectNotFound or IntersectFound
FiReply(c) ==
    /\ UNCHANGED << outVars, bound, otherVars >>
    /\ hpc[c] = "fi_tip"
    /\ hpoint[c] = NilPoint \/ csLock = None
    /\ IF hpoint[c] = NilPoint
       THEN /\ UNCHANGED << clients, iters >>
            /\ IF CanSend(c)
               THEN Send(c, Msg("IntersectNotFound", NilPoint, Tip(chain),
                                "fi", served[c]))
               ELSE UNCHANGED sent
       ELSE /\ clients' = AddClient(clients, c, hpoint[c])
            /\ iters' = AddClientIter(c, hpoint[c])
            /\ IF CanSend(c)
               THEN Send(c, Msg("IntersectFound", hpoint[c], Tip(chain),
                                "fi", served[c]))
               ELSE UNCHANGED sent
    /\ ledgerReaders' = ledgerReaders \ {c}
    /\ agency' = [agency EXCEPT ![c] = "client"]
    /\ Return(c, "none")
    /\ UNCHANGED << chain, chainOps, served, waiters >>

(***************************************************************************)
(* chainsyncServerRequestNext, byron.go lines 276-346.                     *)
(***************************************************************************)
\* line 280: tip := n.ledgerState.Tip()
RnTip(c) ==
    /\ UNCHANGED << outVars, bound, otherVars >>
    /\ hpc[c] = "rn"
    /\ htip' = [htip EXCEPT ![c] = Tip(chain)]
    /\ hpc' = [hpc EXCEPT ![c] = "rn_add"]
    /\ UNCHANGED << chain, chainOps, ledgerReaders, agency,
                    served, hpoints, hpoint, clients, iters, waiters, sent >>

\* line 296 left out: the flag stays set after the initial rollback
InitialRollbackSent_Kept(cs) == cs

\* line 296: clientState.NeedsInitialRollback = false
InitialRollbackSent(cs) == [cs EXCEPT !.NeedsInitialRollback = FALSE]

\* lines 281-298: AddClient(connId, tip.Point), then the initial rollback if
\* the state asks for one
RnAdd(c) ==
    /\ UNCHANGED << outVars, bound, otherVars >>
    /\ hpc[c] = "rn_add"
    /\ csLock = None
    /\ IF AddClientFails(c, htip[c].Point)
       THEN /\ Return(c, "failed")
            /\ UNCHANGED << clients, iters, sent, agency >>
       ELSE LET cl == AddClient(clients, c, htip[c].Point) IN
            /\ iters' = AddClientIter(c, htip[c].Point)
            /\ IF cl[c].NeedsInitialRollback
               THEN IF CanSend(c)
                    THEN /\ Send(c, Msg("RollBackward", cl[c].Cursor, htip[c],
                                        "initial", served[c]))
                         /\ clients' = [cl EXCEPT ![c] = InitialRollbackSent(@)]
                         /\ agency' = [agency EXCEPT ![c] = "client"]
                         /\ Return(c, "none")
                    ELSE /\ clients' = cl
                         /\ Return(c, "failed")
                         /\ UNCHANGED << sent, agency >>
               ELSE /\ clients' = cl
                    /\ hpc' = [hpc EXCEPT ![c] = "rn_next"]
                    /\ UNCHANGED << htip, hpoints, hpoint, sent, agency >>
    /\ UNCHANGED << chain, chainOps, ledgerReaders, served,
                    waiters >>

\* a background goroutine of lines 326-344, about to call Next(true)
Waiter(c) == [conn |-> c, req |-> served[c], pc |-> "next",
              rollback |-> FALSE, point |-> NilPoint]

\* the reply the handler or its goroutine makes of what Next returned
\* (lines 306-320 and 332-343)
NextReply(it, ch, tip, via, req) ==
    IF it.needsRollback
    THEN Msg("RollBackward", it.rollbackPoint, tip, via, req)
    ELSE Msg("RollForward", PointAt(ch, it.pos + 1), tip, via, req)

\* lines 300-305 with ErrIteratorChainTip taken for an error like any other
RnNext_TipIsError(c) ==
    /\ UNCHANGED << outVars, bound, otherVars >>
    /\ hpc[c] = "rn_next"
    /\ LET outcome == IterOutcome(iters[c], chain) IN
       IF outcome \in {"rollback", "block"} /\ CanSend(c)
       THEN /\ Send(c, NextReply(iters[c], chain, htip[c], "iter", served[c]))
            /\ iters' = [iters EXCEPT ![c] = IterAdvance(@)]
            /\ agency' = [agency EXCEPT ![c] = "client"]
            /\ Return(c, "none")
       ELSE /\ iters' = IF outcome \in {"rollback", "block"}
                        THEN [iters EXCEPT ![c] = IterAdvance(@)] ELSE iters
            /\ Return(c, "failed")
            /\ UNCHANGED << sent, agency >>
    /\ UNCHANGED << chain, chainOps, ledgerReaders, served,
                    clients, waiters >>

\* the return of line 319 left out: after its reply the handler goes on to
\* AwaitReply and the goroutine
RnNext_NoReturn(c) ==
    /\ UNCHANGED << outVars, bound, otherVars >>
    /\ hpc[c] = "rn_next"
    /\ LET outcome == IterOutcome(iters[c], chain) IN
       IF outcome = "cancelled" \/ ~CanSend(c)
       THEN /\ iters' = IF outcome \in {"rollback", "block"}
                        THEN [iters EXCEPT ![c] = IterAdvance(@)] ELSE iters
            /\ Return(c, "failed")
            /\ UNCHANGED << sent, agency, waiters >>
       ELSE IF outcome \in {"rollback", "block"}
       THEN /\ sent' = [sent EXCEPT ![c] =
                          @ \o << NextReply(iters[c], chain, htip[c], "iter",
                                            served[c]),
                                  Msg("AwaitReply", NilPoint, NilTip, "iter",
                                      served[c]) >>]
            /\ iters' = [iters EXCEPT ![c] = IterAdvance(@)]
            /\ agency' = [agency EXCEPT ![c] = "client"]
            /\ waiters' = waiters \cup {Waiter(c)}
            /\ Return(c, "none")
       ELSE /\ Send(c, Msg("AwaitReply", NilPoint, NilTip, "iter", served[c]))
            /\ waiters' = waiters \cup {Waiter(c)}
            /\ Return(c, "none")
            /\ UNCHANGED << iters, agency >>
    /\ UNCHANGED << chain, chainOps, ledgerReaders, served,
                    clients >>

\* lines 300-346: Next(false), then the reply with the tip of line 280, or
\* at the tip AwaitReply and the goroutine that waits for the next block
RnNext(c) ==
    /\ UNCHANGED << outVars, bound, otherVars >>
    /\ hpc[c] = "rn_next"
    /\ LET outcome == IterOutcome(iters[c], chain) IN
       IF outcome = "cancelled" \/ ~CanSend(c)
       THEN /\ iters' = IF outcome \in {"rollback", "block"}
                        THEN [iters EXCEPT ![c] = IterAdvance(@)] ELSE iters
            /\ Return(c, "failed")
            /\ UNCHANGED << sent, agency, waiters >>
       ELSE IF outcome \in {"rollback", "block"}
       THEN /\ Send(c, NextReply(iters[c], chain, htip[c], "iter", served[c]))
            /\ iters' = [iters EXCEPT ![c] = IterAdvance(@)]
            /\ agency' = [agency EXCEPT ![c] = "client"]
            /\ Return(c, "none")
            /\ UNCHANGED waiters
       ELSE /\ Send(c, Msg("AwaitReply", NilPoint, NilTip, "iter", served[c]))
            /\ waiters' = waiters \cup {Waiter(c)}
            /\ Return(c, "none")
            /\ UNCHANGED << iters, agency >>
    /\ UNCHANGED << chain, chainOps, ledgerReaders, served,
                    clients >>

\* lines 327-330 with a Next(true) that the closing of the iterator does
\* not wake
WaiterNext_Detached(w) ==
    /\ UNCHANGED << outVars, bound, otherVars >>
    /\ w \in waiters
    /\ w.pc = "next"
    /\ LET it == iters[w.conn]
           outcome == IterOutcome(it, chain) IN
       /\ outcome \notin {"tip", "cancelled"}
       /\ waiters' = (waiters \ {w}) \cup
               {[w EXCEPT !.pc = "send",
                          !.rollback = it.needsRollback,
                          !.point = IF it.needsRollback
                                    THEN it.rollbackPoint
                                    ELSE PointAt(chain, it.pos + 1)]}
       /\ iters' = [iters EXCEPT ![w.conn] = IterAdvance(@)]
    /\ UNCHANGED << chain, chainOps, ledgerReaders, agency,
                    hpc, served, htip, hpoints, hpoint, clients, sent >>

\* lines 327-330: Next(true) returns once the iterator has a result, nil
\* once the iterator is cancelled, and then the goroutine returns
WaiterNext(w) ==
    /\ UNCHANGED << outVars, bound, otherVars >>
    /\ w \in waiters
    /\ w.pc = "next"
    /\ LET it == iters[w.conn]
           outcome == IterOutcome(it, chain) IN
       /\ outcome # "tip"
       /\ IF outcome = "cancelled"
          THEN /\ waiters' = waiters \ {w}
               /\ UNCHANGED iters
          ELSE /\ waiters' = (waiters \ {w}) \cup
                     {[w EXCEPT !.pc = "send",
                                !.rollback = it.needsRollback,
                                !.point = IF it.needsRollback
                                          THEN it.rollbackPoint
                                          ELSE PointAt(chain, it.pos + 1)]}
               /\ iters' = [iters EXCEPT ![w.conn] = IterAdvance(@)]
    /\ UNCHANGED << chain, chainOps, ledgerReaders, agency,
                    hpc, served, htip, hpoints, hpoint, clients, sent >>

\* lines 331-343: a fresh Tip(), then RollBackward or RollForward, whose
\* errors are ignored
WaiterSend(w) ==
    /\ UNCHANGED << outVars, bound, otherVars >>
    /\ w \in waiters
    /\ w.pc = "send"
    /\ waiters' = waiters \ {w}
    /\ IF CanSend(w.conn)
       THEN /\ Send(w.conn,
                    Msg(IF w.rollback THEN "RollBackward" ELSE "RollForward",
                        w.point, Tip(chain), "waiter", w.req))
            /\ agency' = [agency EXCEPT ![w.conn] = "client"]
       ELSE UNCHANGED << sent, agency >>
    /\ UNCHANGED << chain, chainOps, ledgerReaders, hpc,
                    served, htip, hpoints, hpoint, clients, iters >>

(***************************************************************************)
(* The chain store under the ledger's write lock.                          *)
(***************************************************************************)
\* a block is appended after the tip
AddBlock(h) ==
    /\ UNCHANGED << outVars, bound, otherVars >>
    /\ ledgerReaders = {}
    /\ chainOps < MaxChainOps
    /\ Tip(chain).Point.Slot < MaxSlot
    /\ chain' = Append(chain, Point(Tip(chain).Point.Slot + 1, h))
    /\ chainOps' = chainOps + 1
    /\ UNCHANGED << ledgerReaders, agency, hpc, served, htip,
                    hpoints, hpoint, clients, iters, waiters, sent >>

\* the chain is rolled back to its i-th block
Rollback(i) ==
    /\ UNCHANGED << outVars, bound, otherVars >>
    /\ ledgerReaders = {}
    /\ chainOps < MaxChainOps
    /\ i < Len(chain)
    /\ chain' = SubSeq(chain, 1, i)
    /\ iters' = [c \in DOMAIN iters |-> IterRollback(iters[c], chain, i)]
    /\ chainOps' = chainOps + 1
    /\ UNCHANGED << ledgerReaders, agency, hpc, served, htip,
                    hpoints, hpoint, clients, waiters, sent >>

\* a node whose outbound workers have returned and that has accepted
\* NumSessions connections
InitNoWorkers ==
    /\ pc = [w \in Workers |-> "done"]
    /\ peer = [w \in Workers |-> NoPeer]
    /\ oConn = [w \in Workers |-> None]
    /\ chainsyncClientConnId = [w \in Workers |-> None]
    /\ delays = [w \in Workers |-> << >>]
    /\ fails = [w \in Workers |-> 0]
    /\ origin = [w \in Workers |-> "none"]
    /\ connManager = SrvConns
    /\ outboundConns = << >>
    /\ clientConnId = None
    /\ csLock = None
    /\ syncStarted = {}
    /\ txStarted = {}
    /\ nextConnId = NumSessions + 1
    /\ failover = FALSE
    /\ bound = [fails |-> 0, conns |-> NumSessions]

InitServer ==
    /\ InitNoWorkers
    /\ InitSrv
    /\ InitCliIdle /\ InitTxIdle /\ InitEraIdle /\ InitTopoDone /\ InitLockIdle

NextServer ==
    \/ \E c \in SrvConns :
         \/ \E kind \in {"FindIntersect", "RequestNext"} : Dispatch(c, kind)
         \/ \E points \in OfferedPoints : FiRLock(c, points)
         \/ FiReply(c)
         \/ RnTip(c)
         \/ RnAdd(c)
         \/ RnNext(c)
    \/ \E w \in waiters : WaiterNext(w) \/ WaiterSend(w)
    \/ \E h \in Hashes : AddBlock(h)
    \/ \E i \in 0..Len(chain) : Rollback(i)
    \/ \E c \in connManager : Close(c)

SpecServer == InitServer /\ [][NextServer]_vars

\* the goroutines of lines 326-344 are scheduled: a waiter whose Next(true)
\* can return, or that has a message to send, goes on
WaiterFairness ==
    /\ WF_vars(\E w \in waiters : WaiterNext(w))
    /\ WF_vars(\E w \in waiters : WaiterSend(w))

SpecServerFair == SpecServer /\ WaiterFairness

(***************************************************************************)
(* The ChainSync client: chainsyncClientStart, byron.go lines 205-238, and *)
(* the callbacks chainsyncClientRollBackward and chainsyncClientRollForward*)
(* of the session it starts, lines 348-395.                                *)
(***************************************************************************)
RECURSIVE Reverse(_)
Reverse(s) == IF s = << >> THEN << >> ELSE Append(Reverse(Tail(s)), Head(s))

\* n.ledgerState.RecentChainPoints(count): the points of the last count
\* blocks stored, the newest first
RecentChainPoints(ch, count) ==
    Reverse(SubSeq(ch, IF Len(ch) > count THEN Len(ch) - count + 1 ELSE 1, Len(ch)))

\* the chains a node starts its ChainSync client over
StoredChains == { << >>, << Point(1, 1) >>, InitChain }

\* the points a configuration names, and the tips a peer reports
ConfiguredPoints == { << >>, << Point(1, 2) >>, << Point(2, 2), Origin >> }
PeerTips == { [Point |-> Point(3, 1), BlockNumber |-> 3],
              [Point |-> Point(2, 2), BlockNumber |-> 2] }

\* lines 217-237 with the configured points looked at before intersectTip
StartPoints_PointsFirst(in, stored) ==
    IF Len(stored) = 0
    THEN IF Len(in.intersectPoints) > 0
         THEN [err |-> FALSE, points |-> stored \o in.intersectPoints]
         ELSE IF in.intersectTip
         THEN IF in.tipErr
              THEN [err |-> TRUE, points |-> << >>]
              ELSE [err |-> FALSE, points |-> Append(stored, in.tip.Point)]
         ELSE [err |-> FALSE, points |-> stored]
    ELSE [err |-> FALSE, points |-> stored]

\* lines 217-237 with the configuration looked at whatever is stored
StartPoints_ConfigAlways(in, stored) ==
    IF in.intersectTip
    THEN IF in.tipErr
         THEN [err |-> TRUE, points |-> << >>]
         ELSE [err |-> FALSE, points |-> << in.tip.Point >>]
    ELSE IF Len(in.intersectPoints) > 0
    THEN [err |-> FALSE, points |-> in.intersectPoints]
    ELSE [err |-> FALSE, points |-> stored]

\* lines 217-237: the points Sync is called with, or the error of
\* GetCurrentTip
StartPoints(in, stored) ==
    IF Len(stored) = 0
    THEN IF in.intersectTip
         THEN IF in.tipErr
              THEN [err |-> TRUE, points |-> << >>]
              ELSE [err |-> FALSE, points |-> Append(stored, in.tip.Point)]
         ELSE IF Len(in.intersectPoints) > 0
         THEN [err |-> FALSE, points |-> stored \o in.intersectPoints]
         ELSE [err |-> FALSE, points |-> stored]
    ELSE [err |-> FALSE, points |-> stored]

\* lines 205-238; Sync itself succeeds
chainsyncClientStart ==
    /\ UNCHANGED << outVars, bound, srvVars, txVars, eraVars, topoVars, lockVars >>
    /\ startRet = "pending"
    /\ IF clientIn.connId \notin connManager \/ clientIn.ledgerErr
       THEN /\ startRet' = "err"
            /\ UNCHANGED syncCalls
       ELSE LET sp == StartPoints(clientIn,
                        RecentChainPoints(chain, chainsyncIntersectPointCount)) IN
            IF sp.err
            THEN /\ startRet' = "err"
                 /\ UNCHANGED syncCalls
            ELSE /\ startRet' = "nil"
                 /\ syncCalls' = Append(syncCalls,
                                    [connId |-> clientIn.connId, points |-> sp.points])
    /\ UNCHANGED << clientIn, events, received, cbRet >>

\* the block types and the block data a peer sends with RollForward: block
\* headers, and data that is no header
BlockTypes == {1, 5}
BlockData == { [kind |-> "header", slot |-> 3, hash |-> 1],
               [kind |-> "header", slot |-> 2, hash |-> 2],
               [kind |-> "block", slot |-> 3, hash |-> 1] }
RollbackPoints == { Point(1, 1), Origin }

\* no header: the zero value of ChainsyncEvent.BlockHeader
NilHeader == [kind |-> "nil", slot |-> 0, hash |-> 0]

\* the connection of the upstream session, ctx.ConnectionId
SessionConn == syncCalls[1].connId

\* the session takes callbacks: Sync was called, no callback has failed, and
\* fewer than MaxMsgs messages have come
SessionOpen ==
    /\ startRet = "nil"
    /\ cbRet # "err"
    /\ Len(received) < MaxMsgs

\* n.eventBus.Publish(ledger.ChainsyncEventType, event.NewEvent(...))
Publish(evt) == events' = Append(events, evt)

\* lines 348-366 without line 359, Rollback: true
chainsyncClientRollBackward_NoFlag(point, tip) ==
    /\ UNCHANGED << outVars, bound, srvVars, txVars, eraVars, topoVars, lockVars >>
    /\ SessionOpen
    /\ Publish([ConnectionId |-> None, Rollback |-> FALSE, Point |-> point,
                Type |-> 0, BlockHeader |-> NilHeader, Tip |-> tip])
    /\ cbRet' = "nil"
    /\ received' = Append(received,
                     [kind |-> "RollBackward", point |-> point, blockType |-> 0,
                      blockData |-> NilHeader, tip |-> tip, ret |-> "nil"])
    /\ UNCHANGED << clientIn, startRet, syncCalls >>

\* lines 348-366
chainsyncClientRollBackward(point, tip) ==
    /\ UNCHANGED << outVars, bound, srvVars, txVars, eraVars, topoVars, lockVars >>
    /\ SessionOpen
    /\ Publish([ConnectionId |-> None, Rollback |-> TRUE, Point |-> point,
                Type |-> 0, BlockHeader |-> NilHeader, Tip |-> tip])
    /\ cbRet' = "nil"
    /\ received' = Append(received,
                     [kind |-> "RollBackward", point |-> point, blockType |-> 0,
                      blockData |-> NilHeader, tip |-> tip, ret |-> "nil"])
    /\ UNCHANGED << clientIn, startRet, syncCalls >>

\* lines 368-395 without the type switch: whatever the data, an event
chainsyncClientRollForward_AnyData(blockType, blockData, tip) ==
    /\ UNCHANGED << outVars, bound, srvVars, txVars, eraVars, topoVars, lockVars >>
    /\ SessionOpen
    /\ Publish([ConnectionId |-> SessionConn, Rollback |-> FALSE,
                Point |-> Point(blockData.slot, blockData.hash),
                Type |-> blockType, BlockHeader |-> blockData, Tip |-> tip])
    /\ cbRet' = "nil"
    /\ received' = Append(received,
                     [kind |-> "RollForward", point |-> NilPoint,
                      blockType |-> blockType, blockData |-> blockData,
                      tip |-> tip, ret |-> "nil"])
    /\ UNCHANGED << clientIn, startRet, syncCalls >>

\* lines 368-395
chainsyncClientRollForward(blockType, blockData, tip) ==
    /\ UNCHANGED << outVars, bound, srvVars, txVars, eraVars, topoVars, lockVars >>
    /\ SessionOpen
    /\ IF blockData.kind = "header"
       THEN /\ Publish([ConnectionId |-> SessionConn, Rollback |-> FALSE,
                        Point |-> Point(blockData.slot, blockData.hash),
                        Type |-> blockType, BlockHeader |-> blockData,
                        Tip |-> tip])
            /\ cbRet' = "nil"
       ELSE /\ UNCHANGED events
            /\ cbRet' = "err"
    /\ received' = Append(received,
                     [kind |-> "RollForward", point |-> NilPoint,
                      blockType |-> blockType, blockData |-> blockData,
                      tip |-> tip, ret |-> cbRet'])
    /\ UNCHANGED << clientIn, startRet, syncCalls >>

\* a node about to start its ChainSync client on a connection: its stored
\* chain, its configuration, and what the ledger and the peer will answer
InitClient ==
    /\ InitNoWorkers
    /\ InitSrvIdle
    /\ InitTxIdle /\ InitEraIdle /\ InitTopoDone /\ InitLockIdle
    /\ chain \in StoredChains
    /\ clientIn \in [connId : 1..(NumSessions + 1),
                     intersectTip : BOOLEAN,
                     intersectPoints : ConfiguredPoints,
                     ledgerErr : BOOLEAN,
                     tipErr : BOOLEAN,
                     tip : PeerTips]
    /\ startRet = "pending"
    /\ syncCalls = << >>
    /\ events = << >>
    /\ received = << >>
    /\ cbRet = "none"

NextClient ==
    \/ chainsyncClientStart
    \/ \E point \in RollbackPoints : \E tip \in PeerTips :
         chainsyncClientRollBackward(point, tip)
    \/ \E blockType \in BlockTypes : \E blockData \in BlockData :
         \E tip \in PeerTips :
            chainsyncClientRollForward(blockType, blockData, tip)

SpecClient == InitClient /\ [][NextClient]_vars

(***************************************************************************)
(* Local transaction submission: localtxsubmissionServerSubmitTx,          *)
(* outbound.go lines 366-400.                                              *)
(***************************************************************************)
\* the era ids a client names: Alonzo, and one no codec knows
EraIds == {5, 9}

\* the content of the message's CBOR tag, tx.Raw.Content: a byte string,
\* the bytes of a transaction or not, or a CBOR item of another type
TxContents == { [kind |-> "bytes", bytes |-> "txA"],
                [kind |-> "bytes", bytes |-> "txB"],
                [kind |-> "bytes", bytes |-> "junk"],
                [kind |-> "uint", bytes |-> ""] }

NoTx == [EraId |-> 0, Content |-> [kind |-> "none", bytes |-> ""]]

\* ledger.NewTransactionFromCbor(era, bytes) decodes the bytes
Decodes(era, bytes) == era = 5 /\ bytes \in {"txA", "txB"}

\* tmpTx.Hash()
TxHash(bytes) == << "hash", bytes >>

\* the positions of the mempool's entries with hash h
WithHash(mp, h) == {i \in 1..Len(mp) : mp[i].Hash = h}

\* n.mempool.AddTransaction(entry) fails: the mempool is full and the
\* transaction is not in it
MempoolFull(mp, entry) ==
    WithHash(mp, entry.Hash) = {} /\ Len(mp) >= MempoolCapacity

\* the mempool after AddTransaction(entry): a known hash has its last-seen
\* time refreshed, a new one is appended
AddTransaction(mp, entry) ==
    IF WithHash(mp, entry.Hash) # {}
    THEN [i \in 1..Len(mp) |->
             IF mp[i].Hash = entry.Hash
             THEN [mp[i] EXCEPT !.LastSeen = entry.LastSeen] ELSE mp[i]]
    ELSE Append(mp, entry)

\* lines 370-399: what the handler returns, or that the type assertion of
\* line 370 panics, and the mempool after it
SubmitTx(tx) ==
    IF tx.Content.kind # "bytes"
    THEN [ret |-> "panic", mempool |-> mempool]
    ELSE IF ~Decodes(tx.EraId, tx.Content.bytes)
    THEN [ret |-> "codec", mempool |-> mempool]
    ELSE LET entry == [Hash |-> TxHash(tx.Content.bytes), Type |-> tx.EraId,
                       Cbor |-> tx.Content.bytes, LastSeen |-> now] IN
         IF MempoolFull(mempool, entry)
         THEN [ret |-> "MempoolFull", mempool |-> mempool]
         ELSE [ret |-> "nil", mempool |-> AddTransaction(mempool, entry)]

\* the handler runs for a submitted message; a panic ends the node
localtxsubmissionServerSubmitTx(tx) ==
    /\ UNCHANGED << outVars, bound, srvVars, cliVars, eraVars, topoVars, lockVars >>
    /\ txRet.ret \in {"ready", "nil", "codec", "MempoolFull"}
    /\ now < MaxSubmits
    /\ txRet' = [tx |-> tx, ret |-> SubmitTx(tx).ret]
    /\ mempool' = SubmitTx(tx).mempool
    /\ now' = now + 1

\* a node with an empty mempool that serves a local client
InitTx ==
    /\ InitNoWorkers
    /\ InitSrv
    /\ InitCliIdle /\ InitEraIdle /\ InitTopoDone /\ InitLockIdle
    /\ mempool = << >>
    /\ now = 0
    /\ txRet = [tx |-> NoTx, ret |-> "ready"]

NextTx ==
    \E era \in EraIds : \E content \in TxContents :
        localtxsubmissionServerSubmitTx([EraId |-> era, Content |-> content])

SpecTx == InitTx /\ [][NextTx]_vars

(***************************************************************************)
(* The era functions: EpochLengthByron (byron.go lines 28-36),             *)
(* PParamsUpdateAlonzo (92-109), HardForkAlonzo (111-126) and              *)
(* CalculateEtaVAlonzo (128-152).  They are pure: a call is one step from  *)
(* its arguments to its result.                                            *)
(***************************************************************************)
\* Go's int and uint, scaled to WordBits bits
Word == 2 ^ WordBits
ToUint(i) == i % Word
ToInt(i) == IF i % Word >= Word \div 2 THEN (i % Word) - Word ELSE i % Word

\* the Byron genesis of a node configuration: is it loaded, K of its
\* protocol constants and the slot duration of its block version data, ints
ByronConfigs ==
    [loaded : BOOLEAN, K : {-1, 0, 2, 12, 30}, SlotDuration : {-20, 0, 20, 100}]

\* lines 28-36 returning K itself as the epoch length
EpochLengthByron_NoTimesTen(nodeConfig) ==
    IF ~nodeConfig.loaded
    THEN [slotLength |-> 0, epochLength |-> 0, err |-> "genesis not loaded"]
    ELSE [slotLength |-> ToUint(nodeConfig.SlotDuration),
          epochLength |-> ToUint(nodeConfig.K),
          err |-> "nil"]

\* lines 28-36: uint(SlotDuration), uint(K * 10), the product an int
EpochLengthByron(nodeConfig) ==
    IF ~nodeConfig.loaded
    THEN [slotLength |-> 0, epochLength |-> 0, err |-> "genesis not loaded"]
    ELSE [slotLength |-> ToUint(nodeConfig.SlotDuration),
          epochLength |-> ToUint(ToInt(nodeConfig.K * 10)),
          err |-> "nil"]

\* protocol parameters and updates as the dynamic type of the any value and
\* two of its fields, the second one new in Alonzo; Unset is a field an
\* update does not change
Unset == -1
NilPParams == [type |-> "nil", MinFeeA |-> 0, CollateralPercentage |-> 0]
PParamValues ==
    [type : {"AlonzoProtocolParameters", "MaryProtocolParameters"},
     MinFeeA : {44, 45}, CollateralPercentage : {0, 150}]
    \cup {NilPParams}
PParamUpdates ==
    [type : {"AlonzoProtocolParameterUpdate", "MaryProtocolParameterUpdate"},
     MinFeeA : {Unset, 50}, CollateralPercentage : {Unset, 100}]

\* AlonzoProtocolParameters.Update: the fields the update sets
Update(pparams, update) ==
    [type |-> pparams.type,
     MinFeeA |-> IF update.MinFeeA # Unset
                 THEN update.MinFeeA ELSE pparams.MinFeeA,
     CollateralPercentage |-> IF update.CollateralPercentage # Unset
                              THEN update.CollateralPercentage
                              ELSE pparams.CollateralPercentage]

\* lines 92-109 without the type check of the update (lines 100-106)
PParamsUpdateAlonzo_UpdateUnchecked(currentPParams, pparamsUpdate) ==
    IF currentPParams.type # "AlonzoProtocolParameters"
    THEN [ret |-> NilPParams, err |-> "current PParams is not expected type"]
    ELSE [ret |-> Update(currentPParams, pparamsUpdate), err |-> "nil"]

\* lines 92-109
PParamsUpdateAlonzo(currentPParams, pparamsUpdate) ==
    IF currentPParams.type # "AlonzoProtocolParameters"
    THEN [ret |-> NilPParams, err |-> "current PParams is not expected type"]
    ELSE IF pparamsUpdate.type # "AlonzoProtocolParameterUpdate"
    THEN [ret |-> NilPParams, err |-> "PParams update is not expected type"]
    ELSE [ret |-> Update(currentPParams, pparamsUpdate), err |-> "nil"]

\* the Alonzo genesis of a node configuration: nil, or its collateral
\* percentage
NilGenesis == [loaded |-> FALSE, CollateralPercentage |-> 0]
AlonzoGenesisValues ==
    {NilGenesis} \cup [loaded : {TRUE}, CollateralPercentage : {150}]

\* alonzo.UpgradePParams: the Mary fields, the new ones zero
UpgradePParams(maryPParams) ==
    [type |-> "AlonzoProtocolParameters", MinFeeA |-> maryPParams.MinFeeA,
     CollateralPercentage |-> 0]

\* AlonzoProtocolParameters.UpdateFromGenesis: the Alonzo fields of a
\* genesis that is there
UpdateFromGenesis(pparams, genesis) ==
    IF genesis.loaded
    THEN [pparams EXCEPT !.CollateralPercentage = genesis.CollateralPercentage]
    ELSE pparams

\* lines 111-126
HardForkAlonzo(nodeConfig, prevPParams) ==
    IF prevPParams.type # "MaryProtocolParameters"
    THEN [ret |-> NilPParams, err |-> "previous PParams are not expected type"]
    ELSE [ret |-> UpdateFromGenesis(UpgradePParams(prevPParams),
                                    nodeConfig.AlonzoGenesis),
          err |-> "nil"]

\* hexadecimal strings as sequences of characters, bytes as 0..255
HexChars == {"0", "a", "g"}
HexStrings ==
    {<< >>} \cup [1..1 -> HexChars] \cup [1..2 -> HexChars]
fromHexChar(c) ==
    CASE c = "0" -> 0
      [] c = "a" -> 10
      [] OTHER -> -1

\* hex.DecodeString: an error for a character that is no digit and for an
\* odd length, else one byte for two digits
DecodeString(s) ==
    IF \E i \in 1..Len(s) : fromHexChar(s[i]) = -1
    THEN [bytes |-> << >>, err |-> "invalid byte"]
    ELSE IF Len(s) % 2 = 1
    THEN [bytes |-> << >>, err |-> "odd length hex string"]
    ELSE [bytes |-> [i \in 1..(Len(s) \div 2) |->
                        16 * fromHexChar(s[2 * i - 1]) + fromHexChar(s[2 * i])],
          err |-> "nil"]

\* the previous block nonces a caller passes, and blocks as the type of
\* their header and the header's VRF nonce output
PrevNonces == {<< >>, << 0 >>, << 10 >>, << 160 >>}
VrfOutputs == {[len |-> 64, out |-> "v1"], [len |-> 32, out |-> "v2"],
               [len |-> 3, out |-> "v3"]}
Blocks == [header : {"AlonzoBlockHeader", "BabbageBlockHeader"},
           NonceVrf : VrfOutputs]
NilNonce == [prev |-> << >>, vrf |-> "nil"]

\* lcommon.CalculateRollingNonce: a hash of the previous nonce and the
\* hash of the VRF output, an error for an output of a wrong length
CalculateRollingNonce(prevBlockNonce, blockVrf) ==
    IF blockVrf.len \notin {32, 64}
    THEN [nonce |-> NilNonce, err |-> "invalid block VRF length"]
    ELSE [nonce |-> [prev |-> prevBlockNonce, vrf |-> blockVrf.out],
          err |-> "nil"]

\* lines 128-152 with an empty previous nonce left empty
CalculateEtaVAlonzo_NoSeed(nodeConfig, prevBlockNonce, block) ==
    IF block.header # "AlonzoBlockHeader"
    THEN [nonce |-> NilNonce, err |-> "unexpected block type"]
    ELSE CalculateRollingNonce(prevBlockNonce, block.NonceVrf)

\* lines 128-152
CalculateEtaVAlonzo(nodeConfig, prevBlockNonce, block) ==
    LET seed == DecodeString(nodeConfig.ShelleyGenesisHash) IN
    IF Len(prevBlockNonce) = 0 /\ seed.err # "nil"
    THEN [nonce |-> NilNonce, err |-> seed.err]
    ELSE IF block.header # "AlonzoBlockHeader"
    THEN [nonce |-> NilNonce, err |-> "unexpected block type"]
    ELSE CalculateRollingNonce(
             IF Len(prevBlockNonce) = 0 THEN seed.bytes ELSE prevBlockNonce,
             block.NonceVrf)

\* the calls made: the function and its arguments
EraCalls ==
    [fn : {"EpochLengthByron"}, nodeConfig : ByronConfigs]
    \cup [fn : {"PParamsUpdateAlonzo"}, currentPParams : PParamValues,
          pparamsUpdate : PParamUpdates]
    \cup [fn : {"HardForkAlonzo"},
          nodeConfig : [AlonzoGenesis : AlonzoGenesisValues],
          prevPParams : PParamValues]
    \cup [fn : {"CalculateEtaVAlonzo"},
          nodeConfig : [ShelleyGenesisHash : HexStrings],
          prevBlockNonce : PrevNonces, block : Blocks]

Returned(fn) == eraIn.fn = fn /\ eraOut.done

CallEpochLengthByron ==
    /\ UNCHANGED << outVars, bound, srvVars, cliVars, txVars, eraIn, topoVars, lockVars >>
    /\ eraIn.fn = "EpochLengthByron" /\ ~eraOut.done
    /\ eraOut' = [done |-> TRUE, out |-> EpochLengthByron(eraIn.nodeConfig)]

CallPParamsUpdateAlonzo ==
    /\ UNCHANGED << outVars, bound, srvVars, cliVars, txVars, eraIn, topoVars, lockVars >>
    /\ eraIn.fn = "PParamsUpdateAlonzo" /\ ~eraOut.done
    /\ eraOut' = [done |-> TRUE,
                  out |-> PParamsUpdateAlonzo(eraIn.currentPParams,
                                              eraIn.pparamsUpdate)]

CallHardForkAlonzo ==
    /\ UNCHANGED << outVars, bound, srvVars, cliVars, txVars, eraIn, topoVars, lockVars >>
    /\ eraIn.fn = "HardForkAlonzo" /\ ~eraOut.done
    /\ eraOut' = [done |-> TRUE,
                  out |-> HardForkAlonzo(eraIn.nodeConfig, eraIn.prevPParams)]

CallCalculateEtaVAlonzo ==
    /\ UNCHANGED << outVars, bound, srvVars, cliVars, txVars, eraIn, topoVars, lockVars >>
    /\ eraIn.fn = "CalculateEtaVAlonzo" /\ ~eraOut.done
    /\ eraOut' = [done |-> TRUE,
                  out |-> CalculateEtaVAlonzo(eraIn.nodeConfig,
                                              eraIn.prevBlockNonce, eraIn.block)]

InitEras ==
    /\ InitNoWorkers
    /\ InitSrv
    /\ InitCliIdle /\ InitTxIdle /\ InitTopoDone /\ InitLockIdle
    /\ eraIn \in EraCalls
    /\ eraOut = [done |-> FALSE]

NextEras ==
    \/ CallEpochLengthByron
    \/ CallPParamsUpdateAlonzo
    \/ CallHardForkAlonzo
    \/ CallCalculateEtaVAlonzo

SpecEras == InitEras /\ [][NextEras]_vars

(***************************************************************************)
(* startOutboundConnections, outbound.go lines 49-139, for the topology    *)
(* configurations a node can be given.                                     *)
(***************************************************************************)
\* the hosts an operator configures: two ports of one address, and another
\* address
Hosts == {Host("a", 3001), Host("a", 3002), Host("b", 3001)}

\* the lists of at most MaxAccessPoints hosts, and those with one host
HostLists == UNION {[1..n -> Hosts] : n \in 0..MaxAccessPoints}

\* no root group, or one group with its access points and Advertise flag
RootGroups(lists) ==
    {<< >>} \cup {<< [AccessPoints |-> ap, Advertise |-> adv] >> :
                     ap \in lists \ {<< >>}, adv \in BOOLEAN}

TopologyConfigs ==
    [BootstrapPeers : HostLists,
     LocalRoots : RootGroups(HostLists),
     PublicRoots : RootGroups([1..1 -> Hosts])]

\* lines 49-138: tmpPeers is built and one goroutine is started for each of
\* its entries, with the entry as its peer
startOutboundConnections ==
    /\ UNCHANGED << outVars, bound, srvVars, cliVars, txVars, eraVars,
                    topologyConfig, lockVars >>
    /\ ~spawned.started
    /\ spawned' = [started |-> TRUE, peers |-> tmpPeersOf(topologyConfig)]

InitTopology ==
    /\ InitNoWorkers
    /\ InitSrv
    /\ InitCliIdle /\ InitTxIdle /\ InitEraIdle
    /\ InitLockIdle
    /\ topologyConfig \in TopologyConfigs
    /\ spawned = [started |-> FALSE, peers |-> << >>]

NextTopology == startOutboundConnections

SpecTopology == InitTopology /\ [][NextTopology]_vars

(***************************************************************************)
(* The lock discipline: the chain store's readers-writer lock              *)
(* (n.ledgerState, a sync.RWMutex: a writer that waits keeps new readers   *)
(* out) against the chainsync-state mutex.  The chain writer, the          *)
(* FindIntersect handler (byron.go lines 244-268) and an outbound worker   *)
(* inside lines 255-268 of outbound.go take their locks step by step.      *)
(***************************************************************************)
\* the chain writer asks for the exclusive lock
WriterLock ==
    /\ UNCHANGED << outVars, bound, cliVars, txVars, eraVars, topoVars,
                    startReaders >>
    /\ writer = "idle"
    /\ chainOps < MaxChainOps
    /\ Tip(chain).Point.Slot < MaxSlot
    /\ writer' = "waiting"
    /\ UNCHANGED srvVars

\* the last reader is gone: the writer has the lock
WriterAcquire ==
    /\ UNCHANGED << outVars, bound, cliVars, txVars, eraVars, topoVars,
                    startReaders >>
    /\ writer = "waiting"
    /\ ledgerReaders = {} /\ startReaders = {}
    /\ writer' = "writing"
    /\ UNCHANGED srvVars

\* the writer appends its block and unlocks
WriterUnlock(h) ==
    /\ UNCHANGED << outVars, bound, cliVars, txVars, eraVars, topoVars,
                    startReaders >>
    /\ writer = "writing"
    /\ chain' = Append(chain, Point(Tip(chain).Point.Slot + 1, h))
    /\ chainOps' = chainOps + 1
    /\ writer' = "idle"
    /\ UNCHANGED << ledgerReaders, agency, hpc, served, htip,
                    hpoints, hpoint, clients, iters, waiters, sent >>

\* byron.go lines 210-212 under the lock of outbound.go line 255:
\* RecentChainPoints takes the chain store's read lock, which waits while a
\* writer holds the lock or waits for it
RecentChainPointsRLock(w) ==
    /\ UNCHANGED << bound, srvVars, cliVars, txVars, eraVars, topoVars,
                    writer >>
    /\ pc[w] = "start"
    /\ writer = "idle"
    /\ startReaders' = startReaders \cup {w}
    /\ pc' = [pc EXCEPT ![w] = "reading"]
    /\ UNCHANGED << peer, oConn, chainsyncClientConnId, delays, fails, origin,
                    connManager, outboundConns, clientConnId, csLock,
                    syncStarted, txStarted, nextConnId, failover >>

\* RecentChainPoints unlocks and returns the points; chainsyncClientStart
\* starts Sync and returns nil, the worker takes the slot (lines 259-262)
RecentChainPointsOk(w) ==
    /\ UNCHANGED << bound, srvVars, cliVars, txVars, eraVars, topoVars,
                    writer >>
    /\ pc[w] = "reading"
    /\ startReaders' = startReaders \ {w}
    /\ oConn[w] \in connManager
    /\ syncStarted' = syncStarted \cup {oConn[w]}
    /\ clientConnId' = oConn[w]
    /\ pc' = [pc EXCEPT ![w] = "txsub"]
    /\ UNCHANGED << peer, oConn, chainsyncClientConnId, delays, fails, origin,
                    connManager, outboundConns, csLock, txStarted, nextConnId,
                    failover >>

\* RecentChainPoints unlocks and returns an error, or a later step of
\* chainsyncClientStart fails: the error return of line 260 with the
\* deferred Unlock
RecentChainPointsErr(w) ==
    /\ UNCHANGED << bound, srvVars, cliVars, txVars, eraVars, topoVars,
                    writer >>
    /\ pc[w] = "reading"
    /\ startReaders' = startReaders \ {w}
    /\ ReturnErr(w)
    /\ Unlock(w)
    /\ UNCHANGED << origin, connManager, outboundConns, clientConnId,
                    syncStarted, txStarted, nextConnId, failover >>

\* a node that has accepted NumSessions connections and starts its
\* outbound workers
InitLocks ==
    /\ pc = [w \in Workers |-> IF w <= NumStartup THEN "attempt" ELSE "done"]
    /\ peer = [w \in Workers |->
                 IF w <= NumStartup THEN tmpPeers[w] ELSE NoPeer]
    /\ oConn = [w \in Workers |-> None]
    /\ chainsyncClientConnId = [w \in Workers |-> None]
    /\ delays = [w \in Workers |-> << >>]
    /\ fails = [w \in Workers |-> 0]
    /\ origin = [w \in Workers |-> IF w <= NumStartup THEN "startup" ELSE "none"]
    /\ connManager = SrvConns
    /\ outboundConns = << >>
    /\ clientConnId = None
    /\ csLock = None
    /\ syncStarted = {}
    /\ txStarted = {}
    /\ nextConnId = NumSessions + 1
    /\ failover = FALSE
    /\ bound = [fails |-> LockFails, conns |-> NumSessions + LockConns]
    /\ InitSrv
    /\ InitCliIdle /\ InitTxIdle /\ InitEraIdle /\ InitTopoDone /\ InitLockIdle

NextLocks ==
    \/ \E w \in Workers :
         \/ DialFail(w)
         \/ Connect(w)
         \/ Lock(w)
         \/ RecentChainPointsRLock(w)
         \/ RecentChainPointsOk(w)
         \/ RecentChainPointsErr(w)
         \/ TxsubmissionClientStartOk(w)
         \/ TxsubmissionClientStartFail(w)
         \/ Wake(w)
    \/ \E c \in SrvConns :
         \/ Dispatch(c, "FindIntersect")
         \/ \E points \in OfferedPoints : FiRLock(c, points)
         \/ FiReply(c)
    \/ WriterLock
    \/ WriterAcquire
    \/ \E h \in Hashes : WriterUnlock(h)

SpecLocks == InitLocks /\ [][NextLocks]_vars

(***************************************************************************)
(* The reconnect loop against a peer that becomes reachable: the attempts  *)
(* of the running workers fail RetryFails times at most, every worker can  *)
(* dial once more than it can fail, and no connection closes.              *)
(***************************************************************************)
\* an attempt of a peer that is not yet reachable fails, at the dial, at
\* chainsyncClientStart or at txsubmissionClientStart
AttemptFails(w) ==
    /\ TotalFails(Workers) < bound.fails
    /\ \/ DialFail(w)
       \/ ChainsyncClientStartFail(w)
       \/ TxsubmissionClientStartFail(w)

InitReconnect ==
    /\ InitWorkers /\ InitSrv
    /\ InitCliIdle /\ InitTxIdle /\ InitEraIdle /\ InitTopoDone /\ InitLockIdle
    /\ bound = [fails |-> RetryFails, conns |-> NumStartup * (RetryFails + 1)]

NextReconnect ==
    \E w \in Workers :
        \/ AttemptFails(w)
        \/ Connect(w)
        \/ Lock(w)
        \/ ChainsyncClientStartOk(w)
        \/ TxsubmissionClientStartOk(w)
        \/ Wake(w)

\* the goroutines are scheduled, time.Sleep returns and the mutex is handed
\* on: a worker whose next step can succeed takes it; failures are the
\* peer's and happen or not
ReconnectFairness ==
    \A w \in Workers :
        /\ WF_vars(Wake(w))
        /\ WF_vars(Connect(w))
        /\ WF_vars(Lock(w))
        /\ WF_vars(ChainsyncClientStartOk(w))
        /\ WF_vars(TxsubmissionClientStartOk(w))

SpecReconnect == InitReconnect /\ [][NextReconnect]_vars /\ ReconnectFairness

(***************************************************************************)
(* Claims about the outbound peer manager.                                 *)
(***************************************************************************)
\* the i-th delay of the series 1, 2, 4, 8, 16, 32, 64, 128, 128, ...
ExpectedDelay(i) == IF i <= 8 THEN 2 ^ (i - 1) ELSE 128

\* C1: the delays a reconnect loop sleeps before its 1st, 2nd, 3rd, ... retry
\* are 1, 2, 4, 8, 16, 32, 64, 128, 128, ... seconds: doubling from 1 s up to
\* 128 s and exactly 128 s from then on.
C1_BackoffSeries ==
    \A w \in Workers :
        \A i \in 1..Len(delays[w]) : delays[w][i] = ExpectedDelay(i)

\* C1 witness: a loop has slept ten times, the tenth time for 128 s
C1_TenthDelay ==
    \E w \in Workers :
        /\ Len(delays[w]) >= 10
        /\ delays[w][10] = 128
        /\ fails[w] >= 10

\* C2: the slot is read and set inside one critical section of the
\* chain-sync state lock: a worker past the read holds the lock, a worker
\* about to start the chainsync client still sees the slot vacant, at most
\* one live connection has a started chainsync client and it is the slot's
\* owner, and an occupied slot is never overwritten, only vacated.
C2_SlotExclusive ==
    /\ [](/\ \A w \in Workers : pc[w] \in {"start", "txsub"} => csLock = w
          /\ \A w \in Workers : pc[w] = "start" => clientConnId = None
          /\ Cardinality(syncStarted) <= 1
          /\ syncStarted \subseteq {clientConnId})
    /\ [][clientConnId # None /\ clientConnId' # clientConnId
             => clientConnId' = None]_vars

\* C2 witness: one worker owns the slot inside the critical section while
\* another worker, connected too, waits for the lock
C2_Contention ==
    \E w1, w2 \in Workers :
        /\ w1 # w2
        /\ pc[w1] = "txsub" /\ clientConnId = oConn[w1] /\ csLock = w1
        /\ pc[w2] = "lock" /\ oConn[w2] \in connManager

\* C3: after the connection that owned the slot has been closed the slot is
\* vacant, and the next createOutboundConnection that returns nil has taken
\* the slot and started the chainsync client for its connection.
C3_Failover ==
    [][/\ \A c \in connManager :
             (c \notin connManager' /\ clientConnId = c)
                 => clientConnId' = None
       /\ \A w \in Workers :
             (failover /\ pc[w] = "txsub" /\ pc'[w] = "done")
                 => (clientConnId' = oConn[w] /\ oConn[w] \in syncStarted')]_vars

\* C4: every record of the outbound tracking table has reconnect count 0
\* and reconnect delay 0, whatever its worker had counted before, and a
\* reconnect loop started from such a record sleeps 1 s first.
C4_StoredPeerReset ==
    /\ \A c \in DOMAIN outboundConns :
          /\ outboundConns[c].ReconnectCount = 0
          /\ outboundConns[c].ReconnectDelay = 0
    /\ \A w \in Workers :
          origin[w] = "closed" => (delays[w] # << >> /\ delays[w][1] = 1)

\* C4 witness: a worker that has failed and backed off connects; its own
\* record still carries the count and the delay, the stored one is reset
C4_ResetAfterRetries ==
    \E w \in Workers :
        /\ pc[w] \in {"lock", "start", "txsub"}
        /\ peer[w].ReconnectCount > 0 /\ peer[w].ReconnectDelay > 0
        /\ oConn[w] \in DOMAIN outboundConns
        /\ outboundConns[oConn[w]].ReconnectCount = 0
        /\ outboundConns[oConn[w]].ReconnectDelay = 0

\* C5: a worker started by startOutboundConnections that has not connected
\* yet carries a reconnect counter equal to the number of its failed
\* attempts, the initial one included.
C5_CountsFailures ==
    \A w \in Workers :
        (origin[w] = "startup" /\ pc[w] \in {"attempt", "sleep", "lock", "start", "txsub"})
            => peer[w].ReconnectCount = fails[w]

\* C5 witness: three attempts of a startup worker have failed in a row
C5_ThreeFailures ==
    \E w \in Workers :
        /\ origin[w] = "startup" /\ pc[w] = "sleep"
        /\ fails[w] = 3 /\ peer[w].ReconnectCount = 3

(***************************************************************************)
(* Claims about the ChainSync server.                                      *)
(***************************************************************************)
\* the last message sent on connection c in the state a step leads to
LastSent(c) == sent'[c][Len(sent'[c])]

\* the step sends exactly one message on connection c
SendsOne(c) == Len(sent'[c]) = Len(sent[c]) + 1

\* C6: FindIntersect on an open connection.  If none of the offered points
\* is on the chain the reply is IntersectNotFound with the current tip and
\* no client state is created or changed.  Otherwise the reply is
\* IntersectFound with an offered point that is on the chain and the tip read
\* under the same read lock, and afterwards the connection's client state
\* exists with its cursor on that point and NeedsInitialRollback set, also
\* when the connection had a state before.
C6_FindIntersect ==
    [][\A c \in SrvConns :
          (hpc[c] = "fi_tip" /\ hpc'[c] = "none" /\ c \in connManager) =>
             /\ SendsOne(c)
             /\ IF \A i \in 1..Len(hpoints[c]) : hpoints[c][i] \notin OnChain(chain)
                THEN /\ LastSent(c).kind = "IntersectNotFound"
                     /\ LastSent(c).tip = Tip(chain)
                     /\ clients' = clients
                     /\ iters' = iters
                ELSE /\ LastSent(c).kind = "IntersectFound"
                     /\ LastSent(c).point \in OnChain(chain)
                     /\ \E i \in 1..Len(hpoints[c]) : hpoints[c][i] = LastSent(c).point
                     /\ LastSent(c).tip = Tip(chain)
                     /\ c \in DOMAIN clients'
                     /\ clients'[c] = [Cursor |-> LastSent(c).point,
                                       NeedsInitialRollback |-> TRUE]]_vars

\* the positions in sent[c] of the messages sent in one of the given ways
SentVia(c, vias) == {i \in 1..Len(sent[c]) : sent[c][i].via \in vias}

\* the positions in sent[c] of the replies to request k sent in these ways
RepliesTo(c, k, vias) == {i \in SentVia(c, vias) : sent[c][i].req = k}

\* C7: the initial rollback.  It is sent at most once on a connection, it is
\* a RollBackward to the cursor of the client state and the first answer to
\* a RequestNext; the flag of the state of an open connection is set exactly
\* as long as it has not been sent; while the flag is set the iterator has
\* served nothing and no goroutine waits on it.
C7_InitialRollback ==
    \A c \in SrvConns :
        /\ Cardinality(SentVia(c, {"initial"})) <= 1
        /\ \A i \in SentVia(c, {"initial"}) :
              /\ sent[c][i].kind = "RollBackward"
              /\ \A j \in 1..(i - 1) : sent[c][j].via = "fi"
        /\ (c \in connManager /\ c \in DOMAIN clients) =>
              /\ \A i \in SentVia(c, {"initial"}) :
                    sent[c][i].point = clients[c].Cursor
              /\ clients[c].NeedsInitialRollback <=> SentVia(c, {"initial"}) = {}
              /\ clients[c].NeedsInitialRollback =>
                    /\ SentVia(c, {"iter", "waiter"}) = {}
                    /\ \A w \in waiters : w.conn # c

\* C7 witness: the initial rollback has been sent, the flag is cleared and a
\* later RequestNext has been answered from the iterator
C7_ThenFromIterator ==
    \E c \in SrvConns :
        /\ c \in DOMAIN clients /\ ~clients[c].NeedsInitialRollback
        /\ \E i \in SentVia(c, {"initial"}) :
              \E j \in SentVia(c, {"iter"}) : i < j

\* C8: a RequestNext without a pending initial rollback.  The handler sends
\* exactly one immediate reply: RollBackward to the iterator's rollback point
\* if a rollback is pending, else RollForward with the block after the
\* cursor, else, at the tip, AwaitReply, which is no error; it fails only if
\* the iterator is cancelled or the connection closed.  A goroutine is
\* started only with AwaitReply, and it sends at most one further message, a
\* RollForward or a RollBackward.
C8_RequestNext ==
    /\ [](\A c \in SrvConns : \A k \in 1..served[c] :
            /\ Cardinality(RepliesTo(c, k, {"initial", "iter"})) <= 1
            /\ Cardinality(RepliesTo(c, k, {"waiter"})) <= 1
            /\ \A i \in RepliesTo(c, k, {"waiter"}) :
                  /\ sent[c][i].kind \in {"RollForward", "RollBackward"}
                  /\ \E j \in RepliesTo(c, k, {"iter"}) :
                        j < i /\ sent[c][j].kind = "AwaitReply"
            /\ \A w \in waiters : (w.conn = c /\ w.req = k) =>
                  /\ \E j \in RepliesTo(c, k, {"iter"}) : sent[c][j].kind = "AwaitReply"
                  /\ RepliesTo(c, k, {"waiter"}) = {})
    /\ [][\A c \in SrvConns :
            /\ (hpc[c] = "rn_next" /\ hpc'[c] = "none") =>
                 /\ SendsOne(c)
                 /\ LastSent(c).req = served[c] /\ LastSent(c).via = "iter"
                 /\ IF iters[c].needsRollback
                    THEN /\ LastSent(c).kind = "RollBackward"
                         /\ LastSent(c).point = iters[c].rollbackPoint
                         /\ waiters' = waiters
                    ELSE IF iters[c].pos < Len(chain)
                    THEN /\ LastSent(c).kind = "RollForward"
                         /\ LastSent(c).point = chain[iters[c].pos + 1]
                         /\ waiters' = waiters
                    ELSE /\ LastSent(c).kind = "AwaitReply"
                         /\ \E w \in waiters' \ waiters :
                               w.conn = c /\ w.req = served[c]
            /\ (hpc[c] = "rn_next" /\ hpc'[c] = "failed") =>
                 (iters[c].cancelled \/ c \notin connManager)
            /\ (hpc[c] # "rn_next" \/ hpc'[c] # "none") =>
                 \A w \in waiters' \ waiters : w.conn # c \/ w.pc # "next"]_vars

\* C8 witness: a RequestNext at the tip was answered with AwaitReply and,
\* after a block arrived, by its goroutine with RollForward
C8_AwaitThenForward ==
    \E c \in SrvConns : \E i \in SentVia(c, {"waiter"}) :
        /\ sent[c][i].kind = "RollForward"
        /\ \E j \in 1..(i - 1) :
              sent[c][j].kind = "AwaitReply" /\ sent[c][j].req = sent[c][i].req

\* C9: a session whose iterator the chain's rollback to P has marked answers
\* its next RequestNext with RollBackward to P, and the tip in that reply is a
\* tip of the rolled-back chain: a point on the chain, not before P.
C9_RollbackAnnounced ==
    [][\A c \in SrvConns :
          (/\ hpc[c] \in {"rn_add", "rn_next"} /\ hpc'[c] = "none"
           /\ c \in DOMAIN clients
           /\ iters[c].needsRollback /\ ~iters[c].cancelled) =>
             /\ SendsOne(c)
             /\ LastSent(c).kind = "RollBackward"
             /\ LastSent(c).point = iters[c].rollbackPoint
             /\ LastSent(c).tip.Point \in OnChain(chain)
             /\ LastSent(c).tip.BlockNumber >=
                    IndexOf(chain, iters[c].rollbackPoint)]_vars

\* C10: on one connection the replies are sent in the order of the requests
\* and the reply that ends a request comes before anything sent for the
\* next one; a request gets at most one such reply; at most one goroutine
\* waits on the connection's iterator, and none while a handler of the
\* connection runs.
C10_Serial ==
    \A c \in SrvConns :
        /\ \A i \in 1..(Len(sent[c]) - 1) :
              /\ sent[c][i].req <= sent[c][i + 1].req
              /\ sent[c][i].req < sent[c][i + 1].req =>
                    sent[c][i].kind \in FinalKinds
              /\ sent[c][i].req = sent[c][i + 1].req =>
                    sent[c][i].kind \notin FinalKinds
        /\ Cardinality({w \in waiters : w.conn = c}) <= 1
        /\ (\E w \in waiters : w.conn = c) => hpc[c] = "none"

\* C10 witness: a request was answered by the goroutine and the next request
\* of the connection after it
C10_NextAfterWaiter ==
    \E c \in SrvConns : \E i \in SentVia(c, {"waiter"}) :
        \E j \in (i + 1)..Len(sent[c]) : sent[c][j].req = sent[c][i].req + 1

(***************************************************************************)
(* Claims about the ChainSync client.                                      *)
(***************************************************************************)
\* chainsyncClientStart has returned, having found its connection and got
\* the stored points without error
StartedKnown ==
    /\ startRet # "pending"
    /\ clientIn.connId \in connManager
    /\ ~clientIn.ledgerErr

\* chainsyncClientStart called Sync once, with these points, and returned nil
SyncedWith(points) ==
    /\ startRet = "nil"
    /\ syncCalls = << [connId |-> clientIn.connId, points |-> points] >>

\* chainsyncClientStart returned an error and did not call Sync
FailedNoSync == startRet = "err" /\ syncCalls = << >>

\* C11: cold start.  With no stored points and intersect-at-tip configured,
\* chainsyncClientStart calls Sync with exactly one point, the peer's
\* current tip, whatever explicit points are configured; if the query of the
\* tip fails it returns the error and does not call Sync.
C11_ColdStartAtTip ==
    (StartedKnown /\ chain = << >> /\ clientIn.intersectTip) =>
        IF clientIn.tipErr THEN FailedNoSync
        ELSE SyncedWith(<< clientIn.tip.Point >>)

\* C11 witness: a cold start at the tip of a node that has explicit points
\* configured too
C11_SyncAtPeerTip ==
    /\ StartedKnown /\ chain = << >> /\ clientIn.intersectTip
    /\ clientIn.intersectPoints # << >>
    /\ SyncedWith(<< clientIn.tip.Point >>)

\* C17: the candidates of Sync.  Stored points, the newest first, are used
\* alone whatever is configured; with none stored intersect-at-tip goes
\* before the explicit points, the explicit points are used when
\* intersect-at-tip is off, and with neither configured Sync gets an empty
\* list.  An unknown connection or an error of RecentChainPoints returns an
\* error without a call of Sync.
C17_CandidateSelection ==
    startRet # "pending" =>
        IF clientIn.connId \notin connManager \/ clientIn.ledgerErr
        THEN FailedNoSync
        ELSE IF chain # << >>
        THEN SyncedWith(RecentChainPoints(chain, chainsyncIntersectPointCount))
        ELSE IF clientIn.intersectTip
        THEN clientIn.tipErr \/ SyncedWith(<< clientIn.tip.Point >>)
        ELSE IF clientIn.intersectPoints # << >>
        THEN SyncedWith(clientIn.intersectPoints)
        ELSE SyncedWith(<< >>)

\* C17 witness: two points are stored, intersect-at-tip and explicit points
\* are configured, and Sync got the stored points, the newest first
C17_StoredPointsWin ==
    /\ chain = InitChain
    /\ clientIn.intersectTip /\ clientIn.intersectPoints # << >>
    /\ SyncedWith(<< Point(2, 1), Point(1, 1) >>)

\* the callback of this step was given message m: the last of received'
Delivered(m) == received' = Append(received, m)

\* C12: RollForward.  Data that is no block header makes the callback return
\* an error and publish nothing; a header makes it publish exactly one
\* event, with the connection id, the point of the header's slot and hash,
\* the block type, the header and the tip, rollback false, and return nil.
C12_RollForward ==
    [][\A blockType \in BlockTypes : \A blockData \in BlockData :
       \A tip \in PeerTips : \A ret \in {"nil", "err"} :
          Delivered([kind |-> "RollForward", point |-> NilPoint,
                     blockType |-> blockType, blockData |-> blockData,
                     tip |-> tip, ret |-> ret]) =>
             IF blockData.kind = "header"
             THEN /\ ret = "nil" /\ cbRet' = "nil"
                  /\ events' = Append(events,
                        [ConnectionId |-> clientIn.connId, Rollback |-> FALSE,
                         Point |-> Point(blockData.slot, blockData.hash),
                         Type |-> blockType, BlockHeader |-> blockData,
                         Tip |-> tip])
             ELSE /\ ret = "err" /\ cbRet' = "err"
                  /\ events' = events]_vars

\* C12 witness: a header has been accepted and then data that is no header
\* refused, with one event published
C12_HeaderThenBlock ==
    /\ Len(received) = 2 /\ Len(events) = 1
    /\ received[1].kind = "RollForward" /\ received[1].ret = "nil"
    /\ received[2].kind = "RollForward" /\ received[2].ret = "err"
    /\ received[2].blockData.kind = "block"

\* the event the spec has for an accepted message
EventOf(m) ==
    IF m.kind = "RollBackward"
    THEN [ConnectionId |-> None, Rollback |-> TRUE, Point |-> m.point,
          Type |-> 0, BlockHeader |-> NilHeader, Tip |-> m.tip]
    ELSE [ConnectionId |-> clientIn.connId, Rollback |-> FALSE,
          Point |-> Point(m.blockData.slot, m.blockData.hash),
          Type |-> m.blockType, BlockHeader |-> m.blockData, Tip |-> m.tip]

\* C20: the events published on the chainsync topic are, one for one and in
\* the same order, the messages whose callback returned nil; every
\* RollBackward is accepted, and its event has rollback true, its point and
\* its tip.
C20_EventsInOrder ==
    LET accepted == SelectSeq(received, LAMBDA m : m.ret = "nil") IN
    /\ Len(events) = Len(accepted)
    /\ \A i \in 1..Len(accepted) : events[i] = EventOf(accepted[i])
    /\ \A i \in 1..Len(received) :
          received[i].kind = "RollBackward" => received[i].ret = "nil"
    /\ \A i \in 1..Len(received) : received[i].ret = "err" => i = Len(received)

\* C20 witness: a RollForward and then a RollBackward have been received
\* and published in that order
C20_ForwardThenBackward ==
    /\ Len(received) = 2 /\ Len(events) = 2
    /\ received[1].kind = "RollForward" /\ ~events[1].Rollback
    /\ received[2].kind = "RollBackward" /\ events[2].Rollback
    /\ events[2].Point = received[2].point /\ events[2].Tip = received[2].tip

(***************************************************************************)
(* Claims about local transaction submission.                              *)
(***************************************************************************)
\* C13: every submitted message makes the handler return, never crash.  A
\* transaction that does not decode returns an error and leaves the mempool
\* as it is, so does one the mempool rejects; otherwise the mempool then
\* holds exactly one entry with the transaction's hash, and it carries the
\* era id, the raw bytes and last-seen = now, the other entries unchanged.
C13_SubmitTx ==
    /\ [](txRet.ret # "panic")
    /\ [][now' = now + 1 =>
            LET tx == txRet'.tx
                bytes == tx.Content.bytes IN
            IF tx.Content.kind # "bytes" \/ ~Decodes(tx.EraId, bytes)
            THEN txRet'.ret = "codec" /\ mempool' = mempool
            ELSE IF WithHash(mempool, TxHash(bytes)) = {}
                    /\ Len(mempool) >= MempoolCapacity
            THEN txRet'.ret = "MempoolFull" /\ mempool' = mempool
            ELSE /\ txRet'.ret = "nil"
                 /\ \E i \in 1..Len(mempool') :
                       /\ WithHash(mempool', TxHash(bytes)) = {i}
                       /\ mempool'[i] = [Hash |-> TxHash(bytes), Type |-> tx.EraId,
                                         Cbor |-> bytes, LastSeen |-> now]
                 /\ \A j \in 1..Len(mempool) :
                       mempool[j].Hash # TxHash(bytes) =>
                          mempool'[j] = mempool[j]]_vars

(***************************************************************************)
(* Claims about the era functions.                                         *)
(***************************************************************************)
\* C14: for every Alonzo block, CalculateEtaVAlonzo with an empty previous
\* nonce returns what it returns with the decoded Shelley genesis hash as
\* the previous nonce; with a non-empty previous nonce the genesis hash is
\* not consulted, an undecodable one is an error only for an empty previous
\* nonce; a block whose header is no Alonzo header yields an error and no
\* nonce.
C14_EtaVSeed ==
    Returned("CalculateEtaVAlonzo") =>
        LET cfg == eraIn.nodeConfig
            prev == eraIn.prevBlockNonce
            block == eraIn.block
            seed == DecodeString(cfg.ShelleyGenesisHash) IN
        /\ (prev = << >> /\ seed.err = "nil"
                /\ block.header = "AlonzoBlockHeader") =>
              eraOut.out = CalculateEtaVAlonzo(cfg, seed.bytes, block)
        /\ prev # << >> =>
              \A h \in HexStrings :
                  eraOut.out =
                     CalculateEtaVAlonzo([ShelleyGenesisHash |-> h], prev, block)
        /\ (prev = << >> /\ seed.err # "nil") =>
              eraOut.out.err # "nil" /\ eraOut.out.nonce = NilNonce
        /\ block.header # "AlonzoBlockHeader" =>
              eraOut.out.err # "nil" /\ eraOut.out.nonce = NilNonce
        /\ (prev # << >> /\ block.header = "AlonzoBlockHeader"
                /\ block.NonceVrf.len \in {32, 64}) =>
              eraOut.out.err = "nil" /\ eraOut.out.nonce.prev = prev

\* an Alonzo block's nonce was computed from the genesis hash "a0", the
\* byte 160, for an empty previous nonce
C14_SeededFromGenesis ==
    /\ Returned("CalculateEtaVAlonzo")
    /\ eraIn.prevBlockNonce = << >>
    /\ eraIn.nodeConfig.ShelleyGenesisHash = << "a", "0" >>
    /\ eraIn.block.header = "AlonzoBlockHeader"
    /\ eraOut.out.err = "nil"
    /\ eraOut.out.nonce.prev = << 160 >>

\* C15: PParamsUpdateAlonzo returns an error and nil when the current
\* parameters are not Alonzo parameters or the update is not an Alonzo
\* update, HardForkAlonzo when the previous parameters are not Mary
\* parameters; with arguments of the right types both return the updated,
\* the upgraded, parameters and no error.
C15_WrongEraType ==
    /\ Returned("PParamsUpdateAlonzo") =>
          IF eraIn.currentPParams.type # "AlonzoProtocolParameters"
             \/ eraIn.pparamsUpdate.type # "AlonzoProtocolParameterUpdate"
          THEN eraOut.out.err # "nil" /\ eraOut.out.ret = NilPParams
          ELSE /\ eraOut.out.err = "nil"
               /\ eraOut.out.ret.type = "AlonzoProtocolParameters"
               /\ eraOut.out.ret.MinFeeA =
                     IF eraIn.pparamsUpdate.MinFeeA # Unset
                     THEN eraIn.pparamsUpdate.MinFeeA
                     ELSE eraIn.currentPParams.MinFeeA
               /\ eraOut.out.ret.CollateralPercentage =
                     IF eraIn.pparamsUpdate.CollateralPercentage # Unset
                     THEN eraIn.pparamsUpdate.CollateralPercentage
                     ELSE eraIn.currentPParams.CollateralPercentage
    /\ Returned("HardForkAlonzo") =>
          IF eraIn.prevPParams.type # "MaryProtocolParameters"
          THEN eraOut.out.err # "nil" /\ eraOut.out.ret = NilPParams
          ELSE /\ eraOut.out.err = "nil"
               /\ eraOut.out.ret.type = "AlonzoProtocolParameters"
               /\ eraOut.out.ret.MinFeeA = eraIn.prevPParams.MinFeeA
               /\ eraIn.nodeConfig.AlonzoGenesis.loaded =>
                     eraOut.out.ret.CollateralPercentage =
                        eraIn.nodeConfig.AlonzoGenesis.CollateralPercentage

\* an update of another era was refused for Alonzo parameters
C15_UpdateOfOtherEra ==
    /\ Returned("PParamsUpdateAlonzo")
    /\ eraIn.currentPParams.type = "AlonzoProtocolParameters"
    /\ eraIn.pparamsUpdate.type = "MaryProtocolParameterUpdate"
    /\ eraIn.pparamsUpdate.MinFeeA # Unset
    /\ eraOut.out.err # "nil"

\* C16 as stated: EpochLengthByron returns (slot duration, 10 x K, no
\* error) for every loadable Byron genesis and (0, 0, error) when the
\* genesis cannot be loaded.
C16_EpochLength_AsStated ==
    Returned("EpochLengthByron") =>
        IF eraIn.nodeConfig.loaded
        THEN /\ eraOut.out.err = "nil"
             /\ eraOut.out.slotLength = eraIn.nodeConfig.SlotDuration
             /\ eraOut.out.epochLength = 10 * eraIn.nodeConfig.K
        ELSE eraOut.out = [slotLength |-> 0, epochLength |-> 0,
                           err |-> "genesis not loaded"]

\* C16: EpochLengthByron returns (0, 0, error) when the genesis cannot be
\* loaded; for a loaded genesis it returns no error, the slot duration and
\* 10 x K reduced to unsigned words: themselves when they are not negative
\* and 10 x K fits a word.
C16_EpochLength ==
    Returned("EpochLengthByron") =>
        IF eraIn.nodeConfig.loaded
        THEN /\ eraOut.out.err = "nil"
             /\ eraOut.out.slotLength = eraIn.nodeConfig.SlotDuration % Word
             /\ eraOut.out.epochLength = (10 * eraIn.nodeConfig.K) % Word
             /\ eraIn.nodeConfig.SlotDuration >= 0 =>
                   eraOut.out.slotLength = eraIn.nodeConfig.SlotDuration
             /\ (eraIn.nodeConfig.K >= 0 /\ 10 * eraIn.nodeConfig.K < Word) =>
                   eraOut.out.epochLength = 10 * eraIn.nodeConfig.K
        ELSE eraOut.out = [slotLength |-> 0, epochLength |-> 0,
                           err |-> "genesis not loaded"]

\* a genesis with K = 12 and a slot duration of 20 gave (20, 120, nil)
C16_TenTimesK ==
    /\ Returned("EpochLengthByron")
    /\ eraIn.nodeConfig.loaded
    /\ eraIn.nodeConfig.K = 12 /\ eraIn.nodeConfig.SlotDuration = 20
    /\ eraOut.out = [slotLength |-> 20, epochLength |-> 120, err |-> "nil"]

(***************************************************************************)
(* Claims about the slot and a failed start.                               *)
(***************************************************************************)
\* C18: the slot only ever names a connection for which chainsyncClientStart
\* has returned nil.  When chainsyncClientStart fails,
\* createOutboundConnection returns the error with the slot vacant, the
\* lock released and no tx-submission client started for the connection, so
\* that a later connection can take the slot.
C18_SlotAfterStart ==
    /\ [](clientConnId # None => clientConnId \in syncStarted)
    /\ [][\A w \in Workers :
             (pc[w] = "start" /\ pc'[w] \in {"sleep", "capped"}) =>
                 /\ clientConnId = None /\ clientConnId' = None
                 /\ csLock' = None
                 /\ txStarted' = txStarted
                 /\ oConn[w] \notin txStarted']_vars

\* C18 witness: the first connection's start failed and left it behind, no
\* connection has been closed, and the worker of a later connection has
\* started the chainsync client and holds the slot
C18_LaterPeerTakesSlot ==
    \E w \in Workers :
        /\ pc[w] = "txsub" /\ csLock = w
        /\ clientConnId = oConn[w]
        /\ syncStarted = {oConn[w]}
        /\ connManager = 1..(nextConnId - 1)
        /\ \E c \in connManager :
              /\ c < oConn[w]
              /\ c \notin txStarted
              /\ \A v \in Workers : oConn[v] # c

(***************************************************************************)
(* Claims about the AwaitReply waiter and a closed connection.             *)
(***************************************************************************)
WaitersOf(ws, c) == {w \in ws : w.conn = c}

\* C19: once a connection is closed nothing more is sent on it and none of
\* its waiters goes on to send: a waiter suspended in Next(true) is
\* unblocked and terminates, so that every closed connection is eventually
\* without a waiter.
C19_WaiterObservesClose ==
    /\ [][\A c \in SrvConns :
             c \notin connManager =>
                 /\ sent'[c] = sent[c]
                 /\ WaitersOf(waiters', c) \subseteq WaitersOf(waiters, c)]_vars
    /\ \A c \in SrvConns :
          (c \notin connManager /\ WaitersOf(waiters, c) # {})
              ~> (WaitersOf(waiters, c) = {})

\* C19 witness: a closed connection whose last message is the AwaitReply,
\* on a chain that never changed, and whose waiter is gone
C19_WaiterGone ==
    \E c \in SrvConns :
        /\ c \notin connManager
        /\ sent[c] # << >>
        /\ sent[c][Len(sent[c])].kind = "AwaitReply"
        /\ chainOps = 0
        /\ WaitersOf(waiters, c) = {}

(***************************************************************************)
(* Claims about the set of outbound workers.                               *)
(***************************************************************************)
\* the addresses of a list of hosts, and of the access points of root groups
AddressesOf(hosts) == {PeerAddress(hosts[i]) : i \in 1..Len(hosts)}
RootAddresses(roots) ==
    UNION {AddressesOf(roots[g].AccessPoints) : g \in 1..Len(roots)}

\* C21: startOutboundConnections starts exactly one worker per configured
\* peer of the union of bootstrap peers, local-root and public-root access
\* points, one per distinct address also when an address is configured in
\* more than one section; the peer's sharable flag is false for a bootstrap
\* peer and the Advertise flag of its root group otherwise.
C21_WorkerPerPeer ==
    spawned.started =>
        LET cfg == topologyConfig
            roots == cfg.LocalRoots \o cfg.PublicRoots
            configured == AddressesOf(cfg.BootstrapPeers)
                             \cup RootAddresses(roots) IN
        /\ {spawned.peers[i].Address : i \in 1..Len(spawned.peers)} = configured
        /\ Len(spawned.peers) = Cardinality(configured)
        /\ \A i \in 1..Len(spawned.peers) :
              LET p == spawned.peers[i] IN
              IF p.Address \in AddressesOf(cfg.BootstrapPeers)
              THEN ~p.sharable
              ELSE \E g \in 1..Len(roots) :
                     /\ p.Address \in AddressesOf(roots[g].AccessPoints)
                     /\ p.sharable = roots[g].Advertise

(***************************************************************************)
(* Claims about a failed createOutboundConnection.                         *)
(***************************************************************************)
\* C22: whenever createOutboundConnection returns an error, at the dial,
\* the handshake, chainsyncClientStart or txsubmissionClientStart, the
\* connection the call made, if any, is registered neither in the
\* connection manager nor in the outbound tracking table and the slot does
\* not name it.
C22_FailureAtomic ==
    [][\A w \in Workers :
          (pc[w] \in {"attempt", "start", "txsub"}
              /\ pc'[w] \in {"sleep", "capped"}) =>
                 \/ oConn[w] = None
                 \/ /\ oConn[w] \notin connManager'
                    /\ oConn[w] \notin DOMAIN outboundConns'
                    /\ clientConnId' # oConn[w]]_vars

(***************************************************************************)
(* Claims about the tip a reply carries.                                   *)
(***************************************************************************)
\* C23: the tip sent with a RollForward is never behind the block it
\* accompanies: its slot is at least the block's slot, for the immediate
\* reply and for the waiter's message.
C23_TipNotBehind ==
    \A c \in SrvConns : \A i \in 1..Len(sent[c]) :
        sent[c][i].kind = "RollForward" =>
            sent[c][i].tip.Point.Slot >= sent[c][i].point.Slot

(***************************************************************************)
(* Claims about the lock discipline.                                       *)
(***************************************************************************)
\* a party holds one of the two locks or waits for the exclusive one
LockInUse ==
    csLock # None \/ ledgerReaders # {} \/ startReaders # {} \/ writer # "idle"

\* the next step of a party that holds a lock or is the waiting writer
LockStep ==
    \/ \E w \in Workers :
         /\ csLock = w
         /\ \/ RecentChainPointsRLock(w)
            \/ RecentChainPointsOk(w)
            \/ RecentChainPointsErr(w)
            \/ TxsubmissionClientStartOk(w)
            \/ TxsubmissionClientStartFail(w)
    \/ \E c \in ledgerReaders : FiReply(c)
    \/ WriterAcquire
    \/ \E h \in Hashes : WriterUnlock(h)

\* C24: the chain writer, the FindIntersect handlers and the outbound
\* workers never wait on each other forever: in every reachable state
\* where a lock is held or awaited, one of the parties that hold or await
\* it can take its next step, so every lock taken is released.
C24_NoDeadlock == LockInUse => ENABLED LockStep

(***************************************************************************)
(* Claims about the reconnect loop.                                        *)
(***************************************************************************)
\* the peer of startup worker w has a registered connection
Registered(w) ==
    \E c \in connManager :
        /\ c \in DOMAIN outboundConns
        /\ outboundConns[c].Address = tmpPeers[w].Address

====
